---- MODULE Spec2Model ----
(***************************************************************************)
(* A model of the fixed-width table codec github.com/o1egl/fwencoder:      *)
(* Unmarshal/UnmarshalReader (decoder.go) and Marshal/MarshalWriter        *)
(* (encoder.go).                                                           *)
(*                                                                         *)
(* Text is a sequence of runes, each rune a one-character string.  The     *)
(* rune "@" stands for a two-byte rune (such as U+00E9), every other rune  *)
(* for a one-byte one, so that byte offsets and rune offsets differ where  *)
(* they differ in Go.  "\n" is the line feed.                              *)
(***************************************************************************)
EXTENDS Integers, Sequences, FiniteSets, TLC

VARIABLES
    argV,       \* the argument v of the calls: its type, the struct type's fields, nil or not
    slice,      \* the value v points to: for a slice, the sequence of its elements
    data,       \* the bytes handed to Unmarshal, or returned by the last Marshal
    err,        \* what the last call returned: an error value, or a runtime panic
    ops,        \* the calls made so far, each with the error it returned
    nRead,      \* lines the last call took from its reader
    nWritten,   \* Write calls the last call made on its writer
    prevSlice,  \* slice as it was when the last call started
    prevData,   \* data as it was when the last call started
    writer      \* the io.Writer of MarshalWriter, as the last call on it left it

vars == <<argV, slice, data, err, ops, nRead, nWritten, prevSlice, prevData, writer>>

-----------------------------------------------------------------------------
(* Text helpers *)

\* A string literal as a sequence of runes.
Chars(s) == [i \in 1..Len(s) |-> SubSeq(s, i, i)]

NL == "\n"
SP == " "

\* utf8 encoded length of one rune.
ByteLen(c) == IF c = "@" THEN 2 ELSE 1

RECURSIVE ByteLenOf(_)
\* len(s) of a Go string: its length in bytes.
ByteLenOf(s) == IF s = <<>> THEN 0 ELSE ByteLen(Head(s)) + ByteLenOf(Tail(s))

\* len([]rune(s)): the length in runes.
RuneLen(s) == Len(s)

\* s[lo:hi] of a rune slice, 0-based and half-open as in Go.
Slice(s, lo, hi) == SubSeq(s, lo + 1, hi)

Spaces(n) == [i \in 1..n |-> SP]

RECURSIVE Concat(_)
\* The concatenation of a sequence of texts.
Concat(ss) == IF ss = <<>> THEN <<>> ELSE Head(ss) \o Concat(Tail(ss))

IsSpace(c) == c \in {SP, "\t", NL, "\r"}

RECURSIVE TrimLeft(_)
TrimLeft(s) == IF s # <<>> /\ IsSpace(Head(s)) THEN TrimLeft(Tail(s)) ELSE s

RECURSIVE TrimRight(_)
TrimRight(s) ==
    IF s # <<>> /\ IsSpace(s[Len(s)]) THEN TrimRight(SubSeq(s, 1, Len(s) - 1)) ELSE s

\* strings.TrimSpace
TrimSpace(s) == TrimRight(TrimLeft(s))

\* fmt's "%-<width>s": left-justified, padded with spaces to width runes.
PadRight(s, width) == IF RuneLen(s) >= width THEN s ELSE s \o Spaces(width - RuneLen(s))

Digits == {"0", "1", "2", "3", "4", "5", "6", "7", "8", "9"}

DigitVal(c) ==
    CASE c = "0" -> 0 [] c = "1" -> 1 [] c = "2" -> 2 [] c = "3" -> 3 [] c = "4" -> 4
      [] c = "5" -> 5 [] c = "6" -> 6 [] c = "7" -> 7 [] c = "8" -> 8 [] c = "9" -> 9

DigitChar(n) == Chars("0123456789")[n + 1]

RECURSIVE StripZeros(_)
\* A digit string without its leading zeros ("0" for zero).
StripZeros(ds) ==
    IF Len(ds) > 1 /\ Head(ds) = "0" THEN StripZeros(Tail(ds))
    ELSE IF ds = <<>> THEN <<"0">> ELSE ds

RECURSIVE LexLE(_, _)
LexLE(a, b) ==
    IF a = <<>> THEN TRUE
    ELSE IF DigitVal(Head(a)) # DigitVal(Head(b)) THEN DigitVal(Head(a)) < DigitVal(Head(b))
    ELSE LexLE(Tail(a), Tail(b))

\* a <= b for two digit strings without leading zeros (arbitrary precision).
MagLE(a, b) == Len(a) < Len(b) \/ (Len(a) = Len(b) /\ LexLE(a, b))

RECURSIVE NatToChars(_)
\* strconv.Itoa for a natural number.
NatToChars(n) == IF n < 10 THEN <<DigitChar(n)>> ELSE NatToChars(n \div 10) \o <<DigitChar(n % 10)>>

-----------------------------------------------------------------------------
(* Values.  An integer keeps its full width: it is a sign and a decimal     *)
(* magnitude, never a machine integer of TLC.                               *)

Nil == [t |-> "nil"]
Ptr(x) == [t |-> "ptr", elem |-> x]
IntV(neg, mag) == [t |-> "int", neg |-> neg, mag |-> mag]
StrV(s) == [t |-> "string", s |-> s]
BoolV(b) == [t |-> "bool", b |-> b]
\* A float64 as strconv's shortest decimal: 0.d1d2...dn * 10^dp (d = <<>> for zero).
FloatV(neg, d, dp) == [t |-> "float", neg |-> neg, d |-> d, dp |-> dp]
\* A time.Time in UTC: date, time of day and nanoseconds.
TimeV(y, mo, d, h, mi, sec, ns) ==
    [t |-> "time", y |-> y, mo |-> mo, d |-> d, h |-> h, mi |-> mi, sec |-> sec, ns |-> ns]
\* A []int (nil or not), the type that takes the JSON fallback.
ListV(isnil, elems) == [t |-> "list", isnil |-> isnil, elems |-> elems]

NoErr == [kind |-> "none"]
ErrIncorrectInputValue == [kind |-> "ErrIncorrectInputValue"]
\* A panic that UnmarshalReader/MarshalWriter re-raise (a runtime.Error).
RuntimePanic == [kind |-> "runtime panic"]
\* A panic that is recovered and returned as the error (reflect's *ValueError).
ValueError == [kind |-> "reflect.ValueError"]

IntKinds == {"int", "int8", "int16", "int32", "int64"}
UintKinds == {"uint", "uint8", "uint16", "uint32", "uint64"}
FloatKinds == {"float32", "float64"}

\* reflect.Type.Size() * 8 on a 64-bit platform.
BitSize(kind) ==
    CASE kind \in {"int8", "uint8"} -> 8
      [] kind \in {"int16", "uint16"} -> 16
      [] kind \in {"int32", "uint32", "float32"} -> 32
      [] OTHER -> 64

\* 2^(bits-1) - 1
MaxSigned(bits) ==
    CASE bits = 8 -> Chars("127")
      [] bits = 16 -> Chars("32767")
      [] bits = 32 -> Chars("2147483647")
      [] OTHER -> Chars("9223372036854775807")

\* 2^(bits-1)
MinSignedMag(bits) ==
    CASE bits = 8 -> Chars("128")
      [] bits = 16 -> Chars("32768")
      [] bits = 32 -> Chars("2147483648")
      [] OTHER -> Chars("9223372036854775808")

\* 2^bits - 1
MaxUnsigned(bits) ==
    CASE bits = 8 -> Chars("255")
      [] bits = 16 -> Chars("65535")
      [] bits = 32 -> Chars("4294967295")
      [] OTHER -> Chars("18446744073709551615")

AllDigits(s) == \A i \in 1..Len(s) : s[i] \in Digits

\* strconv.ParseUint(s, 10, 64): no sign is permitted; the runes are taken left
\* to right, a rune that is no digit is a syntax error and a prefix whose value
\* exceeds 2^64-1 a range error, whichever comes first.
ParseUint(s) ==
    LET bad == {i \in 1..Len(s) : s[i] \notin Digits}
        firstBad == IF bad = {} THEN Len(s) + 1 ELSE CHOOSE i \in bad : \A j \in bad : i <= j
        over == {i \in 1..(firstBad - 1) :
                    ~MagLE(StripZeros(SubSeq(s, 1, i)), MaxUnsigned(64))}
    IN  IF s = <<>> THEN [err |-> "syntax", mag |-> <<"0">>]
        ELSE IF over # {} THEN [err |-> "range", mag |-> MaxUnsigned(64)]
        ELSE IF bad # {} THEN [err |-> "syntax", mag |-> <<"0">>]
        ELSE [err |-> "none", mag |-> StripZeros(s)]

\* strconv.ParseInt(s, 10, 0): an optional sign, then ParseUint; the result must
\* fit an int (64 bits).
ParseInt(s) ==
    LET signed == s # <<>> /\ Head(s) \in {"+", "-"}
        neg == s # <<>> /\ Head(s) = "-"
        result(un) ==
            IF s = <<>> THEN [err |-> "syntax", neg |-> FALSE, mag |-> <<"0">>]
            ELSE IF un.err = "syntax" THEN [err |-> "syntax", neg |-> FALSE, mag |-> <<"0">>]
            ELSE IF un.err = "range" THEN [err |-> "range", neg |-> neg, mag |-> MaxSigned(64)]
            ELSE IF ~neg /\ ~MagLE(un.mag, MaxSigned(64))
                 THEN [err |-> "range", neg |-> FALSE, mag |-> MaxSigned(64)]
            ELSE IF neg /\ ~MagLE(un.mag, MinSignedMag(64))
                 THEN [err |-> "range", neg |-> TRUE, mag |-> MinSignedMag(64)]
            ELSE [err |-> "none", neg |-> neg /\ un.mag # <<"0">>, mag |-> un.mag]
    IN  result(ParseUint(IF signed THEN Tail(s) ELSE s))

\* reflect.Value.OverflowInt for a field of the given kind.
OverflowInt(kind, neg, mag) ==
    IF neg THEN ~MagLE(mag, MinSignedMag(BitSize(kind)))
    ELSE ~MagLE(mag, MaxSigned(BitSize(kind)))

\* reflect.Value.OverflowUint for a field of the given kind.
OverflowUint(kind, mag) == ~MagLE(mag, MaxUnsigned(BitSize(kind)))

\* strconv.FormatInt(v, 10) / strconv.FormatUint(v, 10) / fmt's %d.
FormatInt(v) == IF v.neg THEN <<"-">> \o v.mag ELSE v.mag

\* strconv.ParseBool
ParseBool(s) ==
    IF s \in {Chars("1"), Chars("t"), Chars("T"), Chars("TRUE"), Chars("true"), Chars("True")}
    THEN [err |-> "none", b |-> TRUE]
    ELSE IF s \in {Chars("0"), Chars("f"), Chars("F"), Chars("FALSE"), Chars("false"),
                   Chars("False")}
    THEN [err |-> "none", b |-> FALSE]
    ELSE [err |-> "syntax", b |-> FALSE]

-----------------------------------------------------------------------------
(* Floats.  A float64 is held as the shortest decimal that strconv prints   *)
(* for it (digits d, decimal point dp: 0.d * 10^dp).  The literals of the   *)
(* model have few digits, so parsing and shortest printing are exact; the   *)
(* special forms (Inf, NaN, hexadecimal) are not among them.                *)

RECURSIVE CountLeadingZeros(_)
CountLeadingZeros(ds) ==
    IF ds # <<>> /\ Head(ds) = "0" THEN 1 + CountLeadingZeros(Tail(ds)) ELSE 0

RECURSIVE StripTrailingZeros(_)
StripTrailingZeros(ds) ==
    IF ds # <<>> /\ ds[Len(ds)] = "0" THEN StripTrailingZeros(SubSeq(ds, 1, Len(ds) - 1))
    ELSE ds

RECURSIVE CharsToNat(_)
\* The value of a short digit string.
CharsToNat(ds) ==
    IF ds = <<>> THEN 0 ELSE 10 * CharsToNat(SubSeq(ds, 1, Len(ds) - 1)) + DigitVal(ds[Len(ds)])

\* 0.a <= 0.b for two digit strings read as decimal fractions.
FracLE(a, b) ==
    LET n == IF Len(a) > Len(b) THEN Len(a) ELSE Len(b)
        pa == a \o [i \in 1..(n - Len(a)) |-> "0"]
        pb == b \o [i \in 1..(n - Len(b)) |-> "0"]
    IN  LexLE(pa, pb)

\* math.MaxFloat64 = 0.17976931348623157 * 10^309
MaxFloat64Digits == Chars("17976931348623157")
\* math.MaxFloat32 = 0.34028234663852886 * 10^39
MaxFloat32Digits == Chars("34028234663852886")

\* |0.d * 10^dp| exceeds 0.maxd * 10^maxdp
FloatExceeds(d, dp, maxd, maxdp) == d # <<>> /\ (dp > maxdp \/ (dp = maxdp /\ ~FracLE(d, maxd)))

\* The index of the first rune of s that is in cs, 0 if there is none.
IndexAny(s, cs) ==
    LET at == {i \in 1..Len(s) : s[i] \in cs}
    IN  IF at = {} THEN 0 ELSE CHOOSE i \in at : \A j \in at : i <= j

\* The mantissa digits [. digits]: its integer and fraction digits.
ParseMantissa(mant) ==
    LET dot == IF IndexAny(mant, {"."}) = 0 THEN Len(mant) + 1 ELSE IndexAny(mant, {"."})
        ip == SubSeq(mant, 1, dot - 1)
        fp == SubSeq(mant, dot + 1, Len(mant))
    IN  [ok |-> AllDigits(ip) /\ AllDigits(fp) /\ Len(ip) + Len(fp) >= 1, ip |-> ip, fp |-> fp]

\* The exponent [sign] digits that follows the "e"; none is exponent 0.
ParseExponent(present, expo) ==
    LET esigned == expo # <<>> /\ Head(expo) \in {"+", "-"}
        eneg == expo # <<>> /\ Head(expo) = "-"
        edigits == IF esigned THEN Tail(expo) ELSE expo
    IN  IF ~present THEN [ok |-> TRUE, e |-> 0]
        ELSE IF edigits = <<>> \/ ~AllDigits(edigits) \/ Len(edigits) > 3 THEN [ok |-> FALSE, e |-> 0]
        ELSE [ok |-> TRUE, e |-> IF eneg THEN 0 - CharsToNat(edigits) ELSE CharsToNat(edigits)]

\* The digits d and the decimal point dp of ip.fp * 10^e.
Decimal(ip, fp, e) ==
    LET z == CountLeadingZeros(ip \o fp)
        d == StripTrailingZeros(SubSeq(ip \o fp, z + 1, Len(ip) + Len(fp)))
    IN  [d |-> d, dp |-> IF d = <<>> THEN 0 ELSE Len(ip) - z + e]

\* The float of a mantissa and an exponent that were read.
FloatOf(neg, m, x) ==
    LET result(dec) ==
            IF FloatExceeds(dec.d, dec.dp, MaxFloat64Digits, 309)
            THEN [err |-> "range", neg |-> neg, d |-> dec.d, dp |-> dec.dp]
            ELSE [err |-> "none", neg |-> neg, d |-> dec.d, dp |-> dec.dp]
    IN  IF ~m.ok \/ ~x.ok THEN [err |-> "syntax", neg |-> FALSE, d |-> <<>>, dp |-> 0]
        ELSE result(Decimal(m.ip, m.fp, x.e))

\* ParseFloat on what follows the sign.
ParseFloatUnsigned(neg, body) ==
    LET epos == IndexAny(body, {"e", "E"})
    IN  FloatOf(neg,
                ParseMantissa(IF epos = 0 THEN body ELSE SubSeq(body, 1, epos - 1)),
                ParseExponent(epos # 0, SubSeq(body, epos + 1, Len(body))))

\* strconv.ParseFloat(s, 64) on a decimal literal: [sign] digits [. digits]
\* [e [sign] digits], at least one mantissa digit. A value beyond MaxFloat64
\* is a range error.
ParseFloat(s) ==
    LET signed == s # <<>> /\ Head(s) \in {"+", "-"}
        neg == s # <<>> /\ Head(s) = "-"
    IN  ParseFloatUnsigned(neg, IF signed THEN Tail(s) ELSE s)

\* reflect.Value.OverflowFloat: only a float32 can overflow.
OverflowFloat(kind, d, dp) == kind = "float32" /\ FloatExceeds(d, dp, MaxFloat32Digits, 39)

\* strconv's fmtF with the shortest precision: %f without an exponent.
FmtF(v) ==
    LET nd == Len(v.d)
        prec == IF nd - v.dp > 0 THEN nd - v.dp ELSE 0
        int == IF v.dp > 0 THEN [i \in 1..v.dp |-> IF i <= nd THEN v.d[i] ELSE "0"] ELSE <<"0">>
        frac == [i \in 1..prec |-> IF v.dp + i >= 1 /\ v.dp + i <= nd THEN v.d[v.dp + i] ELSE "0"]
    IN  (IF v.neg THEN <<"-">> ELSE <<>>) \o int \o (IF prec > 0 THEN <<".">> \o frac ELSE <<>>)

\* strconv's fmtE with the shortest precision: d.ddde+XX.
FmtE(v) ==
    LET nd == Len(v.d)
        exp == IF nd = 0 THEN 0 ELSE v.dp - 1
        abs == IF exp < 0 THEN 0 - exp ELSE exp
        first == IF nd = 0 THEN <<"0">> ELSE <<v.d[1]>>
        rest == IF nd > 1 THEN <<".">> \o SubSeq(v.d, 2, nd) ELSE <<>>
        edigits == IF abs < 10 THEN <<"0">> \o NatToChars(abs) ELSE NatToChars(abs)
    IN  (IF v.neg THEN <<"-">> ELSE <<>>) \o first \o rest
            \o <<"e", IF exp < 0 THEN "-" ELSE "+">> \o edigits

\* strconv.FormatFloat(x, 'f', -1, 64)
FormatFloatF(v) == FmtF(v)

\* fmt's %g (strconv.FormatFloat(x, 'g', -1, 64)): the exponent form is used
\* when the exponent is below -4 or at least 6.
FormatFloatG(v) ==
    LET exp == v.dp - 1
    IN  IF exp < -4 \/ exp >= 6 THEN FmtE(v) ELSE FmtF(v)

-----------------------------------------------------------------------------
(* Times.  Two layouts are modelled: time.RFC3339, the default, and the     *)
(* layout "02/01/2006" of the tests.  Times are in UTC; RFC3339 texts with  *)
(* a numeric zone offset or fractional seconds are not among the literals   *)
(* of the model.                                                            *)

RFC3339 == Chars("2006-01-02T15:04:05Z07:00")
DayMonthYear == Chars("02/01/2006")

Pad2(n) == IF n < 10 THEN <<"0">> \o NatToChars(n) ELSE NatToChars(n)
Pad4(n) == [i \in 1..(4 - Len(NatToChars(n))) |-> "0"] \o NatToChars(n)

\* the zero time.Time: January 1, year 1, 00:00:00 UTC
ZeroTime == TimeV(1, 1, 1, 0, 0, 0, 0)

DaysIn(y, mo) ==
    IF mo = 2 THEN (IF y % 4 = 0 /\ (y % 100 # 0 \/ y % 400 = 0) THEN 29 ELSE 28)
    ELSE IF mo \in {4, 6, 9, 11} THEN 30 ELSE 31

\* time.Time.Format(layout)
TimeFormat(v, layout) ==
    IF layout = DayMonthYear
    THEN Pad2(v.d) \o <<"/">> \o Pad2(v.mo) \o <<"/">> \o Pad4(v.y)
    ELSE Pad4(v.y) \o <<"-">> \o Pad2(v.mo) \o <<"-">> \o Pad2(v.d) \o <<"T">>
            \o Pad2(v.h) \o <<":">> \o Pad2(v.mi) \o <<":">> \o Pad2(v.sec) \o <<"Z">>

\* The runes of s at the (1-based) positions ps are digits / equal the runes cs.
DigitsAt(s, ps) == \A i \in ps : s[i] \in Digits
RunesAt(s, ps, cs) == \A k \in 1..Len(ps) : s[ps[k]] = cs[k]

\* time.Parse(layout, s)
TimeParse(layout, s) ==
    LET bad == [err |-> "syntax", v |-> ZeroTime]
        num(lo, hi) == CharsToNat(SubSeq(s, lo, hi))
        valid(v) == /\ v.mo \in 1..12 /\ v.d >= 1 /\ v.d <= DaysIn(v.y, v.mo)
                    /\ v.h < 24 /\ v.mi < 60 /\ v.sec < 60
    IN  IF layout = DayMonthYear
        THEN IF /\ Len(s) = 10
                /\ DigitsAt(s, {1, 2, 4, 5, 7, 8, 9, 10})
                /\ RunesAt(s, <<3, 6>>, <<"/", "/">>)
             THEN LET v == TimeV(num(7, 10), num(4, 5), num(1, 2), 0, 0, 0, 0)
                  IN  IF valid(v) THEN [err |-> "none", v |-> v] ELSE bad
             ELSE bad
        ELSE IF /\ Len(s) = 20
                /\ DigitsAt(s, {1, 2, 3, 4, 6, 7, 9, 10, 12, 13, 15, 16, 18, 19})
                /\ RunesAt(s, <<5, 8, 11, 14, 17, 20>>, <<"-", "-", "T", ":", ":", "Z">>)
             THEN LET v == TimeV(num(1, 4), num(6, 7), num(9, 10),
                                 num(12, 13), num(15, 16), num(18, 19), 0)
                  IN  IF valid(v) THEN [err |-> "none", v |-> v] ELSE bad
             ELSE bad

-----------------------------------------------------------------------------
(* The JSON fallback, for the type []int.  The JSON texts of the model      *)
(* carry no insignificant white space.                                      *)

RECURSIVE JoinInts(_)
JoinInts(es) ==
    IF es = <<>> THEN <<>>
    ELSE IF Len(es) = 1 THEN FormatInt(es[1])
    ELSE FormatInt(es[1]) \o <<",">> \o JoinInts(Tail(es))

\* json.Marshal of a []int
JSONMarshal(v) == IF v.isnil THEN Chars("null") ELSE <<"[">> \o JoinInts(v.elems) \o <<"]">>

RECURSIVE SplitComma(_)
\* The pieces of s between its commas.
SplitComma(s) ==
    LET cs == {i \in 1..Len(s) : s[i] = ","}
    IN  IF cs = {} THEN <<s>>
        ELSE LET c == CHOOSE i \in cs : \A j \in cs : i <= j
             IN  <<SubSeq(s, 1, c - 1)>> \o SplitComma(SubSeq(s, c + 1, Len(s)))

\* A JSON number that a Go int takes: -?(0|[1-9][0-9]*), within 64 bits.
JSONInt(s) ==
    LET neg == s # <<>> /\ Head(s) = "-"
        ds == IF neg THEN Tail(s) ELSE s
    IN  /\ ds # <<>> /\ AllDigits(ds) /\ (Len(ds) = 1 \/ Head(ds) # "0")
        /\ ParseInt(s).err = "none"

\* json.Unmarshal(s, &v) for v of type []int
JSONUnmarshal(s) ==
    LET inner == SubSeq(s, 2, Len(s) - 1)
        parts == IF inner = <<>> THEN <<>> ELSE SplitComma(inner)
    IN  IF s = Chars("null") THEN [err |-> "none", v |-> ListV(TRUE, <<>>)]
        ELSE IF /\ Len(s) >= 2 /\ s[1] = "[" /\ s[Len(s)] = "]"
                /\ \A i \in 1..Len(parts) : JSONInt(parts[i])
             THEN [err |-> "none",
                   v |-> ListV(FALSE, [i \in 1..Len(parts) |->
                                LET n == ParseInt(parts[i]) IN IntV(n.neg, n.mag)])]
        ELSE [err |-> "syntax", v |-> ListV(TRUE, <<>>)]

-----------------------------------------------------------------------------
(* Record types.  A struct type is the sequence of its fields; a field has  *)
(* a name, its `column`, `json` and `format` tags, a kind, and is a pointer *)
(* or not.                                                                  *)

Tag(s) == [ok |-> TRUE, v |-> Chars(s)]
NoTag == [ok |-> FALSE, v |-> <<>>]

Field(name, column, json, format, kind, ptr) ==
    [name |-> Chars(name), column |-> column, json |-> json, format |-> format,
     kind |-> kind, ptr |-> ptr]

\* A struct value (or what a non-nil pointer to one points to).
Rec(vals) == [t |-> "struct", f |-> vals]

\* The zero value of a field.
ZeroValue(fd) ==
    IF fd.ptr THEN Nil
    ELSE CASE fd.kind \in IntKinds \cup UintKinds -> IntV(FALSE, <<"0">>)
           [] fd.kind \in FloatKinds -> FloatV(FALSE, <<>>, 0)
           [] fd.kind = "string" -> StrV(<<>>)
           [] fd.kind = "bool" -> BoolV(FALSE)
           [] fd.kind = "time" -> ZeroTime
           [] OTHER -> ListV(TRUE, <<>>)

\* reflect.New(t).Elem(): the zero struct
ZeroRec(fields) == Rec([i \in 1..Len(fields) |-> ZeroValue(fields[i])])

CastError(raw, fd) == [kind |-> "CastError", raw |-> raw, field |-> fd.name]
OverflowError(fd) == [kind |-> "OverflowError", field |-> fd.name]
UnmarshalError(raw, fd) == [kind |-> "can't unmarshal", raw |-> raw, field |-> fd.name]
PatternError(name) == [kind |-> "PatternError", name |-> name]
LineLengthError(n) == [kind |-> "LineLengthError", line |-> n]
LineError(n, e) == [kind |-> "LineError", line |-> n, cause |-> e]

\* decoder.go getRefName
getRefName(fd) ==
    IF fd.column.ok THEN fd.column.v
    ELSE IF fd.json.ok THEN fd.json.v
    ELSE fd.name

\* decoder.go getColumns
getColumns(fields) == [i \in 1..Len(fields) |-> getRefName(fields[i])]

\* A compilation that accepts every name.
AlwaysCompiles(name) == TRUE

\* regexp.Compile("(" + name + " *)") succeeds. The names of the model hold no
\* regexp metacharacter but ")", which closes a group that was not opened.
RegexpCompiles(name) == \A i \in 1..Len(name) : name[i] # ")"

\* The byte offset of the rune at 0-based rune index k.
ByteOffset(s, k) == ByteLenOf(SubSeq(s, 1, k))

\* A search that finds every name, at the whole of the header line.
FindAnywhere(name, headerLine) ==
    [found |-> TRUE, start |-> 0, end |-> ByteLenOf(headerLine)]

\* regexp.FindStringIndex for "(" + name + " *)": the leftmost occurrence of
\* the name, extended over the spaces that follow it; offsets are byte offsets
\* into the header. found = FALSE is the nil result.
FindStringIndex(name, headerLine) ==
    LET at == {i \in 0..(Len(headerLine) - Len(name)) :
                    Slice(headerLine, i, i + Len(name)) = name}
        i0 == CHOOSE i \in at : \A j \in at : i <= j
        ends == {j \in (i0 + Len(name))..Len(headerLine) :
                    \A k \in (i0 + Len(name) + 1)..j : headerLine[k] = SP}
        j0 == CHOOSE j \in ends : \A k \in ends : k <= j
    IN  IF at = {} THEN [found |-> FALSE, start |-> 0, end |-> 0]
        ELSE [found |-> TRUE, start |-> ByteOffset(headerLine, i0),
              end |-> ByteOffset(headerLine, j0)]

RECURSIVE parseHeadersFrom(_, _, _, _)
parseHeadersFrom(headerLine, columnNames, i, columns) ==
    IF i > Len(columnNames) THEN [err |-> NoErr, columns |-> columns]
    ELSE LET colName == columnNames[i]
             loc == FindStringIndex(colName, headerLine)
         IN  IF ~RegexpCompiles(colName)
             THEN [err |-> PatternError(colName), columns |-> <<>>]
             ELSE IF ~loc.found
             THEN parseHeadersFrom(headerLine, columnNames, i + 1, columns)
             ELSE parseHeadersFrom(headerLine, columnNames, i + 1,
                    Append(columns, [name |-> colName, start |-> loc.start, end |-> loc.end]))

\* decoder.go parseHeaders
parseHeaders(headerLine, columnNames) == parseHeadersFrom(headerLine, columnNames, 1, <<>>)

-----------------------------------------------------------------------------
(* Field decoding: decoder.go setFieldValue and the set*FieldValue helpers. *)
(* Each returns the error and the field's new value.                        *)

Box(isPointer, x) == IF isPointer THEN Ptr(x) ELSE x

\* decoder.go setIntFieldValue
setIntFieldValue(old, fd, rawValue, isPointer) ==
    LET set(value) ==
            IF value.err # "none" THEN [err |-> CastError(rawValue, fd), v |-> old]
            ELSE IF OverflowInt(fd.kind, value.neg, value.mag)
                 THEN [err |-> OverflowError(fd), v |-> old]
            ELSE [err |-> NoErr, v |-> Box(isPointer, IntV(value.neg, value.mag))]
    IN  set(ParseInt(rawValue))

\* decoder.go setUintFieldValue
setUintFieldValue(old, fd, rawValue, isPointer) ==
    LET set(value) ==
            IF value.err # "none" THEN [err |-> CastError(rawValue, fd), v |-> old]
            ELSE IF OverflowUint(fd.kind, value.mag)
                 THEN [err |-> OverflowError(fd), v |-> old]
            ELSE [err |-> NoErr, v |-> Box(isPointer, IntV(FALSE, value.mag))]
    IN  set(ParseUint(rawValue))

\* decoder.go setFloatFieldValue
setFloatFieldValue(old, fd, rawValue, isPointer) ==
    LET set(value) ==
            IF value.err # "none" THEN [err |-> CastError(rawValue, fd), v |-> old]
            ELSE IF OverflowFloat(fd.kind, value.d, value.dp)
                 THEN [err |-> OverflowError(fd), v |-> old]
            ELSE [err |-> NoErr, v |-> Box(isPointer, FloatV(value.neg, value.d, value.dp))]
    IN  set(ParseFloat(rawValue))

\* decoder.go setStringFieldValue
setStringFieldValue(rawValue, isPointer) ==
    [err |-> NoErr, v |-> Box(isPointer, StrV(rawValue))]

\* decoder.go setBoolFieldValue
setBoolFieldValue(old, fd, rawValue, isPointer) ==
    LET set(value) ==
            IF value.err # "none" THEN [err |-> CastError(rawValue, fd), v |-> old]
            ELSE [err |-> NoErr, v |-> Box(isPointer, BoolV(value.b))]
    IN  set(ParseBool(rawValue))

\* decoder.go setTimeFieldValue
setTimeFieldValue(old, fd, rawValue, isPointer) ==
    LET timeFormat == IF fd.format.ok THEN fd.format.v ELSE RFC3339
        set(t) ==
            IF t.err # "none" THEN [err |-> CastError(rawValue, fd), v |-> old]
            ELSE [err |-> NoErr, v |-> Box(isPointer, t.v)]
    IN  set(TimeParse(timeFormat, rawValue))

\* decoder.go setFieldValue
setFieldValue(old, fd, raw) ==
    LET rawValue == TrimSpace(raw)
        isPointer == fd.ptr
    IN  CASE fd.kind \in IntKinds -> setIntFieldValue(old, fd, rawValue, isPointer)
          [] fd.kind \in FloatKinds -> setFloatFieldValue(old, fd, rawValue, isPointer)
          [] fd.kind \in UintKinds -> setUintFieldValue(old, fd, rawValue, isPointer)
          [] fd.kind = "string" -> setStringFieldValue(rawValue, isPointer)
          [] fd.kind = "bool" -> setBoolFieldValue(old, fd, rawValue, isPointer)
          [] fd.kind = "time" -> setTimeFieldValue(old, fd, rawValue, isPointer)
          [] OTHER ->
                \* json.Unmarshal into a new value of the field's type; for a
                \* pointer field, JSON null leaves the new pointer nil.
                LET set(j) ==
                        IF j.err # "none" THEN [err |-> UnmarshalError(rawValue, fd), v |-> old]
                        ELSE IF isPointer /\ rawValue = Chars("null") THEN [err |-> NoErr, v |-> Nil]
                        ELSE [err |-> NoErr, v |-> Box(isPointer, j.v)]
                IN  set(JSONUnmarshal(rawValue))

RECURSIVE createObjectFrom(_, _, _, _)
createObjectFrom(fieldsIndex, fields, fieldIndex, s) ==
    IF fieldIndex > Len(fields) THEN [err |-> NoErr, rec |-> Rec(s)]
    ELSE LET fd == fields[fieldIndex]
             refName == getRefName(fd)
         IN  IF refName \notin DOMAIN fieldsIndex
             THEN createObjectFrom(fieldsIndex, fields, fieldIndex + 1, s)
             ELSE LET next(r) ==
                          IF r.err.kind # "none" THEN [err |-> r.err, rec |-> Rec(s)]
                          ELSE createObjectFrom(fieldsIndex, fields, fieldIndex + 1,
                                                [s EXCEPT ![fieldIndex] = r.v])
                  IN  next(setFieldValue(s[fieldIndex], fd, fieldsIndex[refName]))

RECURSIVE createObjectBackwards(_, _, _, _)
\* createObject with the fields taken from the last to the first.
createObjectBackwards(fieldsIndex, fields, fieldIndex, s) ==
    IF fieldIndex < 1 THEN [err |-> NoErr, rec |-> Rec(s)]
    ELSE LET fd == fields[fieldIndex]
             refName == getRefName(fd)
         IN  IF refName \notin DOMAIN fieldsIndex
             THEN createObjectBackwards(fieldsIndex, fields, fieldIndex - 1, s)
             ELSE LET next(r) ==
                          IF r.err.kind # "none" THEN [err |-> r.err, rec |-> Rec(s)]
                          ELSE createObjectBackwards(fieldsIndex, fields, fieldIndex - 1,
                                                     [s EXCEPT ![fieldIndex] = r.v])
                  IN  next(setFieldValue(s[fieldIndex], fd, fieldsIndex[refName]))

\* A createObject that reports the last failing field of the line.
createObjectLastError(fieldsIndex, fields) ==
    createObjectBackwards(fieldsIndex, fields, Len(fields), ZeroRec(fields).f)

\* decoder.go createObject
createObject(fieldsIndex, fields) == createObjectFrom(fieldsIndex, fields, 1, ZeroRec(fields).f)

-----------------------------------------------------------------------------
(* The decoder: decoder.go UnmarshalReader, validateInput, parseData.       *)

\* The type of the argument v is the sequence of the kinds met on the way
\* down from it: <<"Ptr", "Slice", "Struct">> for *[]T, <<>> for a nil
\* interface. Every type ends in a kind that is neither "Ptr" nor "Slice".
PtrSliceStruct == <<"Ptr", "Slice", "Struct">>
PtrSlicePtrStruct == <<"Ptr", "Slice", "Ptr", "Struct">>

\* validateInput without its last check, of the kind of the slice's elements.
validateInputAnyElem(t) ==
    IF t = <<>> \/ t[1] # "Ptr" \/ t[2] # "Slice"
    THEN [err |-> ErrIncorrectInputValue, isSliceItemPtr |-> FALSE]
    ELSE [err |-> NoErr, isSliceItemPtr |-> t[3] = "Ptr"]

\* decoder.go validateInput
validateInput(t) ==
    LET bad == [err |-> ErrIncorrectInputValue, isSliceItemPtr |-> FALSE]
    IN  IF t = <<>> \/ t[1] # "Ptr" THEN bad
        ELSE IF t[2] # "Slice" THEN bad
        ELSE LET isSliceItemPtr == t[3] = "Ptr"
                 sliceItemType == IF isSliceItemPtr THEN SubSeq(t, 4, Len(t)) ELSE SubSeq(t, 3, Len(t))
             IN  IF sliceItemType[1] # "Struct" THEN bad
                 ELSE [err |-> NoErr, isSliceItemPtr |-> isSliceItemPtr]

\* The slice left as it is.
KeepSlice(s) == s

\* slice.Slice(0, 0): the slice emptied
ResetSlice(s) == <<>>

\* bufio.ScanLines without the final "\r" of a line
DropCR(line) ==
    IF line # <<>> /\ line[Len(line)] = "\r" THEN SubSeq(line, 1, Len(line) - 1) ELSE line

RECURSIVE ScanLines(_)
\* The lines bufio.Scanner yields for the data: each ends at a line feed, and
\* what follows the last line feed is a line only if it is not empty. (The
\* scanner's 64 KiB limit on a line is beyond the bounds of the model.)
ScanLines(d) ==
    LET nls == {i \in 1..Len(d) : d[i] = NL}
        c == CHOOSE i \in nls : \A j \in nls : i <= j
    IN  IF d = <<>> THEN <<>>
        ELSE IF nls = {} THEN <<DropCR(d)>>
        ELSE <<DropCR(SubSeq(d, 1, c - 1))>> \o ScanLines(SubSeq(d, c + 1, Len(d)))

\* The zero rune found between the length and the capacity of a rune slice.
NUL == "NUL"

\* lineRunes[start:end]: the bounds are checked against the capacity of the
\* slice, which the runtime's allocation makes capSlack runes larger than its
\* length; the runes past the length are zero. ok = FALSE is the panic
\* "slice bounds out of range".
SliceRunes(lineRunes, start, end, capSlack) ==
    IF end > Len(lineRunes) + capSlack THEN [ok |-> FALSE, s |-> <<>>]
    ELSE [ok |-> TRUE,
          s |-> [k \in 1..(end - start) |->
                    IF start + k <= Len(lineRunes) THEN lineRunes[start + k] ELSE NUL]]

RECURSIVE fillFieldsIndexKeepingOld(_, _, _, _, _)
\* The loop over the columns of one line that leaves a key the map already
\* has as it is.
fillFieldsIndexKeepingOld(fieldsIndex, columns, i, lineRunes, capSlack) ==
    IF i > Len(columns) THEN [ok |-> TRUE, fieldsIndex |-> fieldsIndex]
    ELSE LET prnColumn == columns[i]
             cell == SliceRunes(lineRunes, prnColumn.start, prnColumn.end, capSlack)
         IN  IF ~cell.ok THEN [ok |-> FALSE, fieldsIndex |-> fieldsIndex]
             ELSE fillFieldsIndexKeepingOld(
                    [n \in DOMAIN fieldsIndex \cup {prnColumn.name} |->
                        IF n \in DOMAIN fieldsIndex THEN fieldsIndex[n] ELSE cell.s],
                    columns, i + 1, lineRunes, capSlack)

RECURSIVE fillFieldsIndex(_, _, _, _, _)
\* decoder.go parseData, the loop over the columns of one line
fillFieldsIndex(fieldsIndex, columns, i, lineRunes, capSlack) ==
    IF i > Len(columns) THEN [ok |-> TRUE, fieldsIndex |-> fieldsIndex]
    ELSE LET prnColumn == columns[i]
             cell == SliceRunes(lineRunes, prnColumn.start, prnColumn.end, capSlack)
         IN  IF ~cell.ok THEN [ok |-> FALSE, fieldsIndex |-> fieldsIndex]
             ELSE fillFieldsIndex(
                    [n \in DOMAIN fieldsIndex \cup {prnColumn.name} |->
                        IF n = prnColumn.name THEN cell.s ELSE fieldsIndex[n]],
                    columns, i + 1, lineRunes, capSlack)

\* The new item put before the elements of the slice.
PrependItem(sl, newItem) == <<newItem>> \o sl

\* reflect.Append(slice, newItem)
AppendItem(sl, newItem) == Append(sl, newItem)

\* A line number counted from 0.
ReportedLineFromZero(lineNum) == lineNum - 1

\* The line number an error of the data line lineNum reports.
ReportedLine(lineNum) == lineNum

\* The length of a line that is compared with the header's.
LineLength(lineRunes) == RuneLen(lineRunes)

RECURSIVE parseLoop(_, _, _, _, _, _, _, _, _)
\* decoder.go parseData, the scanner loop from line lineNum on
parseLoop(lines, lineNum, headersLength, columns, fieldsIndex, sl, fields, isSliceItemPtr, capSlack) ==
    IF lineNum > Len(lines) THEN [err |-> NoErr, slice |-> sl, nRead |-> Len(lines)]
    ELSE LET lineRunes == lines[lineNum]
         IN  IF lineNum = 1
             THEN LET next(h) ==
                          IF h.err.kind # "none"
                          THEN [err |-> h.err, slice |-> sl, nRead |-> lineNum]
                          ELSE parseLoop(lines, lineNum + 1, LineLength(lineRunes), h.columns,
                                         fieldsIndex, sl, fields, isSliceItemPtr, capSlack)
                  IN  next(parseHeaders(lineRunes, getColumns(fields)))
             ELSE IF LineLength(lineRunes) # headersLength
             THEN [err |-> LineLengthError(ReportedLine(lineNum)), slice |-> sl, nRead |-> lineNum]
             ELSE LET append(fi, newItem) ==
                          IF newItem.err.kind # "none"
                          THEN [err |-> LineError(ReportedLine(lineNum), newItem.err),
                                slice |-> sl, nRead |-> lineNum]
                          ELSE parseLoop(lines, lineNum + 1, headersLength, columns,
                                         fi.fieldsIndex,
                                         AppendItem(sl, Box(isSliceItemPtr, newItem.rec)),
                                         fields, isSliceItemPtr, capSlack)
                      create(fi) ==
                          IF ~fi.ok THEN [err |-> RuntimePanic, slice |-> sl, nRead |-> lineNum]
                          ELSE append(fi, createObject(fi.fieldsIndex, fields))
                  IN  create(fillFieldsIndex(fieldsIndex, columns, 1, lineRunes, capSlack))

\* decoder.go parseData
parseData(reader, sl, fields, isSliceItemPtr, capSlack) ==
    parseLoop(ScanLines(reader), 1, 0, <<>>, <<>>, sl, fields, isSliceItemPtr, capSlack)

\* decoder.go UnmarshalReader (and Unmarshal, which wraps the bytes in a
\* reader). arg is the argument v: its type, the fields of the struct type
\* it reaches, and whether the pointer is nil; sl is what it points to.
UnmarshalReader(reader, arg, sl, capSlack) ==
    LET in == validateInput(arg.type)
    IN  IF in.err.kind # "none" THEN [err |-> in.err, slice |-> sl, nRead |-> 0]
        \* reflect.ValueOf(v).Elem() of a nil pointer is the zero Value, and
        \* Slice on it panics with a *reflect.ValueError, which is recovered
        ELSE IF arg.nilptr THEN [err |-> ValueError, slice |-> sl, nRead |-> 0]
        ELSE parseData(reader, ResetSlice(sl), arg.fields, in.isSliceItemPtr, capSlack)

-----------------------------------------------------------------------------
(* The encoder: encoder.go.  What is written is kept as the sequence of the *)
(* writer's Write calls, each with the text it was handed.                  *)

\* encoder.go columnWidthMap.Set
Set(c, name, width) ==
    LET old == IF name \in DOMAIN c THEN c[name] ELSE RuneLen(name)
    IN  [n \in DOMAIN c \cup {name} |->
            IF n = name THEN (IF old < width THEN width ELSE old) ELSE c[n]]

\* The width the header and the cells of a column are padded to: a missing
\* key of the map reads as 0.
WidthOf(columnWidthIndex, name) ==
    IF name \in DOMAIN columnWidthIndex THEN columnWidthIndex[name] ELSE 0

\* The text encoder.go writeValue formats for a non-nil value, before padding.
RenderValue(value, fd) ==
    CASE value.t = "int" -> FormatInt(value)
      [] value.t = "float" -> FormatFloatG(value)
      [] value.t = "bool" -> IF value.b THEN Chars("true") ELSE Chars("false")
      [] value.t = "string" -> value.s
      [] value.t = "time" -> TimeFormat(value, IF fd.format.ok THEN fd.format.v ELSE RFC3339)
      [] OTHER -> JSONMarshal(value)

\* encoder.go writeValue: the Write calls for one cell. A nil pointer is
\* written as width single spaces, anything else by one Fprintf.
writeValue(value, fd, width) ==
    IF value.t = "nil" THEN [i \in 1..width |-> <<SP>>]
    ELSE LET x == IF value.t = "ptr" THEN value.elem ELSE value
         IN  <<PadRight(RenderValue(x, fd), width)>>

\* encoder.go getFieldLen
getFieldLen(value, fd) ==
    IF value.t = "nil" THEN 0
    ELSE LET x == IF value.t = "ptr" THEN value.elem ELSE value
         IN  CASE x.t = "int" -> ByteLenOf(FormatInt(x))
               [] x.t = "float" -> ByteLenOf(FormatFloatF(x))
               [] x.t = "bool" -> IF x.b THEN 4 ELSE 5
               [] x.t = "string" -> ByteLenOf(x.s)
               [] x.t = "time" ->
                    ByteLenOf(TimeFormat(x, IF fd.format.ok THEN fd.format.v ELSE RFC3339))
               [] OTHER -> ByteLenOf(JSONMarshal(x))

RECURSIVE widthOfFields(_, _, _, _)
\* encoder.go makeColumnWidthIndex, the loop over the fields of one item
widthOfFields(columnWidthIndex, item, fields, fieldIndex) ==
    IF fieldIndex > Len(fields) THEN columnWidthIndex
    ELSE widthOfFields(
            Set(columnWidthIndex, getRefName(fields[fieldIndex]),
                getFieldLen(item.f[fieldIndex], fields[fieldIndex])),
            item, fields, fieldIndex + 1)

RECURSIVE widthOfItems(_, _, _, _)
widthOfItems(columnWidthIndex, sl, fields, i) ==
    IF i > Len(sl) THEN columnWidthIndex
    ELSE IF sl[i].t = "nil" THEN widthOfItems(columnWidthIndex, sl, fields, i + 1)
    ELSE widthOfItems(
            widthOfFields(columnWidthIndex, IF sl[i].t = "ptr" THEN sl[i].elem ELSE sl[i],
                          fields, 1),
            sl, fields, i + 1)

\* encoder.go makeColumnWidthIndex (getFieldLen cannot fail for the kinds of
\* the model: json.Marshal of a []int always succeeds)
makeColumnWidthIndex(sl, fields) == widthOfItems(<<>>, sl, fields, 1)

RECURSIVE headerWrites(_, _, _)
headerWrites(columnNames, columnWidthIndex, i) ==
    IF i > Len(columnNames) THEN <<>>
    ELSE <<PadRight(columnNames[i], WidthOf(columnWidthIndex, columnNames[i]))>>
            \o (IF i # Len(columnNames) THEN <<<<SP>>>> ELSE <<>>)
            \o headerWrites(columnNames, columnWidthIndex, i + 1)

\* encoder.go writeHeader: the Write calls of the header line
writeHeader(columnNames, columnWidthIndex) ==
    headerWrites(columnNames, columnWidthIndex, 1) \o <<<<NL>>>>

RECURSIVE rowWrites(_, _, _, _)
\* encoder.go writeData, the loop over the fields of one item
rowWrites(item, fields, columnWidthIndex, fieldIndex) ==
    IF fieldIndex > Len(fields) THEN <<>>
    ELSE writeValue(item.f[fieldIndex], fields[fieldIndex],
                    WidthOf(columnWidthIndex, getRefName(fields[fieldIndex])))
            \o (IF fieldIndex # Len(fields) THEN <<<<SP>>>> ELSE <<>>)
            \o rowWrites(item, fields, columnWidthIndex, fieldIndex + 1)

RECURSIVE writeDataFrom(_, _, _, _, _)
writeDataFrom(sl, fields, columnWidthIndex, i, writes) ==
    IF i > Len(sl) THEN [err |-> NoErr, writes |-> writes]
    \* item.Elem() of a nil pointer is the zero Value; NumField on it panics
    \* with a *reflect.ValueError, which MarshalWriter recovers and returns
    ELSE IF sl[i].t = "nil" THEN [err |-> ValueError, writes |-> writes]
    ELSE writeDataFrom(sl, fields, columnWidthIndex, i + 1,
            writes \o rowWrites(IF sl[i].t = "ptr" THEN sl[i].elem ELSE sl[i],
                                fields, columnWidthIndex, 1)
                   \o (IF i # Len(sl) THEN <<<<NL>>>> ELSE <<>>))

\* encoder.go writeData
writeData(sl, fields, columnWidthIndex) == writeDataFrom(sl, fields, columnWidthIndex, 1, <<>>)

\* encoder.go MarshalWriter, into a writer that never fails (Marshal's
\* bytes.Buffer): the error returned and the Write calls made.
MarshalWriter(arg, sl) ==
    LET t == arg.type
        bad == [err |-> ErrIncorrectInputValue, writes |-> <<>>]
    IN  IF ~(t # <<>> /\ t[1] = "Ptr") THEN bad
        ELSE IF t[2] # "Slice" THEN bad
        ELSE IF (IF t[3] = "Ptr" THEN t[4] ELSE t[3]) # "Struct" THEN bad
        \* the Elem() of a nil pointer is the zero Value: Len on it panics
        \* with a *reflect.ValueError, which is recovered and returned
        ELSE IF arg.nilptr THEN [err |-> ValueError, writes |-> <<>>]
        ELSE LET columnNames == getColumns(arg.fields)
                 result(h, d) == [err |-> d.err, writes |-> h \o d.writes]
                 write(columnWidthIndex) ==
                    result(writeHeader(columnNames, columnWidthIndex),
                           writeData(sl, arg.fields, columnWidthIndex))
             IN  write(makeColumnWidthIndex(sl, arg.fields))

-----------------------------------------------------------------------------
(* MarshalWriter with a writer that may fail: encoder.go again, each Write  *)
(* call followed by the test of its error as in the code.  A result is the  *)
(* error returned and the writer as the function left it.                   *)

\* An io.Writer that fails at its failAt-th Write call and at every call
\* after it, and never if failAt = 0; calls are the texts handed to Write.
NewWriter(failAt) == [failAt |-> failAt, calls |-> <<>>]

\* The error a failing Write returns.
ErrWrite == [kind |-> "WriteError"]

\* writer.Write(p)
Write(w, p) ==
    [err |-> IF w.failAt # 0 /\ Len(w.calls) + 1 >= w.failAt THEN ErrWrite ELSE NoErr,
     w |-> [w EXCEPT !.calls = Append(@, p)]]

\* The bytes the writer took: the texts of the calls that did not fail.
Written(w) ==
    Concat(IF w.failAt # 0 /\ Len(w.calls) >= w.failAt
           THEN SubSeq(w.calls, 1, w.failAt - 1) ELSE w.calls)

RECURSIVE writeSpacesTo(_, _)
\* encoder.go writeValue, the loop that writes a nil pointer as width spaces
writeSpacesTo(w, width) ==
    IF width = 0 THEN [err |-> NoErr, w |-> w]
    ELSE LET next(r) == IF r.err # NoErr THEN r ELSE writeSpacesTo(r.w, width - 1)
         IN  next(Write(w, <<SP>>))

\* encoder.go writeValue
writeValueTo(w, value, fd, width) ==
    IF value.t = "nil" THEN writeSpacesTo(w, width)
    ELSE Write(w, PadRight(RenderValue(IF value.t = "ptr" THEN value.elem ELSE value, fd),
                           width))

RECURSIVE headerWritesTo(_, _, _, _)
\* encoder.go writeHeader, the loop over the column names
headerWritesTo(w, columnNames, columnWidthIndex, i) ==
    IF i > Len(columnNames) THEN [err |-> NoErr, w |-> w]
    ELSE LET sep(r) ==
                IF r.err # NoErr THEN r
                ELSE headerWritesTo(r.w, columnNames, columnWidthIndex, i + 1)
             name(r) ==
                IF r.err # NoErr THEN r
                ELSE IF i # Len(columnNames) THEN sep(Write(r.w, <<SP>>))
                ELSE headerWritesTo(r.w, columnNames, columnWidthIndex, i + 1)
         IN  name(Write(w, PadRight(columnNames[i], WidthOf(columnWidthIndex, columnNames[i]))))

\* A writeHeader that writes the line feed whether the names were written
\* or not.
writeHeaderToThenLineFeed(w, columnNames, columnWidthIndex) ==
    LET next(r) == Write(r.w, <<NL>>)
    IN  next(headerWritesTo(w, columnNames, columnWidthIndex, 1))

\* encoder.go writeHeader
writeHeaderTo(w, columnNames, columnWidthIndex) ==
    LET next(r) == IF r.err # NoErr THEN r ELSE Write(r.w, <<NL>>)
    IN  next(headerWritesTo(w, columnNames, columnWidthIndex, 1))

RECURSIVE rowWritesTo(_, _, _, _, _)
\* encoder.go writeData, the loop over the fields of one item
rowWritesTo(w, item, fields, columnWidthIndex, fieldIndex) ==
    IF fieldIndex > Len(fields) THEN [err |-> NoErr, w |-> w]
    ELSE LET sep(r) ==
                IF r.err # NoErr THEN r
                ELSE rowWritesTo(r.w, item, fields, columnWidthIndex, fieldIndex + 1)
             cell(r) ==
                IF r.err # NoErr THEN r
                ELSE IF fieldIndex # Len(fields) THEN sep(Write(r.w, <<SP>>))
                ELSE rowWritesTo(r.w, item, fields, columnWidthIndex, fieldIndex + 1)
         IN  cell(writeValueTo(w, item.f[fieldIndex], fields[fieldIndex],
                               WidthOf(columnWidthIndex, getRefName(fields[fieldIndex]))))

RECURSIVE writeDataFromTo(_, _, _, _, _)
\* encoder.go writeData, the loop over the items from item i on
writeDataFromTo(w, sl, fields, columnWidthIndex, i) ==
    IF i > Len(sl) THEN [err |-> NoErr, w |-> w]
    \* NumField on the Elem() of a nil pointer panics with a *reflect.ValueError
    ELSE IF sl[i].t = "nil" THEN [err |-> ValueError, w |-> w]
    ELSE LET feed(r) ==
                IF r.err # NoErr THEN r
                ELSE writeDataFromTo(r.w, sl, fields, columnWidthIndex, i + 1)
             row(r) ==
                IF r.err # NoErr THEN r
                ELSE IF i # Len(sl) THEN feed(Write(r.w, <<NL>>))
                ELSE writeDataFromTo(r.w, sl, fields, columnWidthIndex, i + 1)
         IN  row(rowWritesTo(w, IF sl[i].t = "ptr" THEN sl[i].elem ELSE sl[i],
                             fields, columnWidthIndex, 1))

\* encoder.go writeData
writeDataTo(w, sl, fields, columnWidthIndex) ==
    writeDataFromTo(w, sl, fields, columnWidthIndex, 1)

\* encoder.go MarshalWriter
MarshalWriterTo(w, arg, sl) ==
    LET t == arg.type
        bad == [err |-> ErrIncorrectInputValue, w |-> w]
    IN  IF ~(t # <<>> /\ t[1] = "Ptr") THEN bad
        ELSE IF t[2] # "Slice" THEN bad
        ELSE IF (IF t[3] = "Ptr" THEN t[4] ELSE t[3]) # "Struct" THEN bad
        ELSE IF arg.nilptr THEN [err |-> ValueError, w |-> w]
        ELSE LET rows(columnWidthIndex, h) ==
                    IF h.err # NoErr THEN h
                    ELSE writeDataTo(h.w, sl, arg.fields, columnWidthIndex)
                 write(columnWidthIndex) ==
                    rows(columnWidthIndex,
                         writeHeaderTo(w, getColumns(arg.fields), columnWidthIndex))
             IN  write(makeColumnWidthIndex(sl, arg.fields))

-----------------------------------------------------------------------------
(* The arguments and inputs of the model.                                   *)

MaxCalls == 2       \* calls made in a row on the same v
MaxDataLines == 2   \* data lines of a generated document
MaxRecords == 2     \* records of a generated slice
MaxHeaderCols == 2  \* columns of a generated header
MaxCapSlack == 1    \* capacity of a line's rune slice beyond its length

SeqsUpTo(S, n) == UNION {[1..k -> S] : k \in 0..n}

Plain(name, kind, ptr) == Field(name, NoTag, NoTag, NoTag, kind, ptr)

\* struct { Zip string `column:"Credit Limit" json:"Postcode"`;
\*          Phone string `json:"Tel"`; Name string }
TNames == <<Field("Zip", Tag("Credit Limit"), Tag("Postcode"), NoTag, "string", FALSE),
            Field("Phone", NoTag, Tag("Tel"), NoTag, "string", FALSE),
            Plain("Name", "string", FALSE)>>
\* struct { Int8 int8; S string }
TRow == <<Plain("Int8", "int8", FALSE), Plain("S", "string", FALSE)>>
\* struct { Int int `column:")Float32"` }, the type B of TestIncorrectInput
TBad == <<Field("Int", Tag(")Float32"), NoTag, NoTag, "int", FALSE)>>
\* struct { S string; Int int `column:")Float32"`; U uint `json:")U"` }
TBadLater == <<Plain("S", "string", FALSE),
               Field("Int", Tag(")Float32"), NoTag, NoTag, "int", FALSE),
               Field("U", NoTag, Tag(")U"), NoTag, "uint", FALSE)>>
\* struct { N <kind> } and struct { N *<kind> }, for every integer kind
TInt(kind, ptr) == <<Plain("N", kind, ptr)>>
\* struct { Int int; Int8 int8 }
TPrefix == <<Plain("Int", "int", FALSE), Plain("Int8", "int8", FALSE)>>
\* struct { O *<kind> }, for a kind of every family
TPtr(kind) == <<Plain("O", kind, TRUE)>>
\* struct { F float64; I int8 }
TNum == <<Plain("F", "float64", FALSE), Plain("I", "int8", FALSE)>>
\* struct { S string; B bool }
TText == <<Plain("S", "string", FALSE), Plain("B", "bool", FALSE)>>
\* struct { Date time.Time `json:"Time"`;
\*          Birthday time.Time `column:"CustomDate" format:"02/01/2006"` }
TTime == <<Field("Date", NoTag, Tag("Time"), NoTag, "time", FALSE),
           Field("Birthday", Tag("CustomDate"), NoTag, Tag("02/01/2006"), "time", FALSE)>>
\* struct { P *int8; L []int; Q *[]int }
TOpt == <<Plain("P", "int8", TRUE), Plain("L", "list", FALSE), Plain("Q", "list", TRUE)>>

Arg(type, fields, nilptr) == [type |-> type, fields |-> fields, nilptr |-> nilptr]

\* The types of v that are no pointer to a slice of structs or of pointers to
\* structs: nil, 1, struct and slice values, new(string), &[]int{}, &[]*int{},
\* &[]**T{}.
InvalidTypes ==
    {<<>>, <<"Int">>, <<"Struct">>, <<"Slice", "Struct">>, <<"Ptr", "String">>,
     <<"Ptr", "Struct">>, <<"Ptr", "Slice", "Int">>, <<"Ptr", "Slice", "Ptr", "Int">>,
     <<"Ptr", "Slice", "Ptr", "Ptr", "Struct">>}

Shapes == {PtrSliceStruct, PtrSlicePtrStruct}

\* An element of a slice of the given shape holding the struct value rec.
Elem(shape, rec) == IF shape = PtrSlicePtrStruct THEN Ptr(rec) ELSE rec

\* A document laid out in columns: the names and, per row, the cells, each
\* padded to the width of its column, with one space between columns.
ColWidth(names, rows, k) ==
    LET lens == {RuneLen(names[k])} \cup {RuneLen(rows[r][k]) : r \in 1..Len(rows)}
    IN  CHOOSE w \in lens : \A x \in lens : x <= w

RECURSIVE LayoutLine(_, _, _, _)
LayoutLine(cells, names, rows, k) ==
    IF k > Len(cells) THEN <<>>
    ELSE PadRight(cells[k], ColWidth(names, rows, k))
            \o (IF k # Len(cells) THEN <<SP>> ELSE <<>>)
            \o LayoutLine(cells, names, rows, k + 1)

RECURSIVE JoinLines(_)
JoinLines(lines) ==
    IF lines = <<>> THEN <<>>
    ELSE IF Len(lines) = 1 THEN lines[1]
    ELSE lines[1] \o <<NL>> \o JoinLines(Tail(lines))

Layout(names, rows) ==
    JoinLines(<<LayoutLine(names, names, rows, 1)>>
                \o [r \in 1..Len(rows) |-> LayoutLine(rows[r], names, rows, 1)])

\* Documents for TNames: a header of distinct names, some of them names,
\* tags or resolved names of the fields, one of them a name that holds a
\* resolved name, and one row of cells a, b, c.
NamePool == {Chars("Zip"), Chars("Credit Limit"), Chars("Postcode"),
             Chars("Phone"), Chars("Tel"), Chars("Name"), Chars("Telephone")}
NameHeaders ==
    {h \in SeqsUpTo(NamePool, MaxHeaderCols) :
        Len(h) >= 1 /\ \A i, j \in 1..Len(h) : i # j => h[i] # h[j]}
NameDocs == {Layout(h, <<[k \in 1..Len(h) |-> <<Chars("abcdefgh")[k]>>]>>) : h \in NameHeaders}

\* Documents for TRow: a header and data lines of several lengths, with and
\* without a final line feed, the empty line and a line of spaces among them;
\* headers with a character of two bytes before
\* the names; headers that lack the column Int8.
RowLines == {Chars("5    x"), Chars("-7   @"), Chars("128  y"), Chars("x    z"),
             Chars("5"), Chars("5    xy"), <<>>, Chars("      ")}
RowDocs ==
    {JoinLines(<<Chars("Int8 S")>> \o ls) \o tail :
        ls \in SeqsUpTo(RowLines, MaxDataLines), tail \in {<<>>, <<NL>>}}
        \cup {<<>>, Chars("@ Int8 S\n@ 5    x"), Chars("@ Int8 S\nx 5    x\n@ 6    y"),
              Chars("@ Int8 S X\n@ 5    x y"), Chars("@ S X\n@ x y"),
              Chars("Int9 S\nx    z\n7    y"), Chars("S\nx")}

\* Documents for TBad and TBadLater.
BadDocs == {Chars("Float32\nhello  "), Chars("Float32\nhello"), Chars("Float32"),
            Chars("S\nx\ny"), <<NL>>, <<>>}

\* Integer literals around the bounds of every width, signed and not, and
\* texts that are no integer literal.
Magnitudes ==
    {Chars("0"), Chars("007"), Chars("5123"), Chars("127"), Chars("128"), Chars("129"),
     Chars("255"), Chars("256"), Chars("32767"), Chars("32768"), Chars("32769"),
     Chars("65535"), Chars("65536"), Chars("2147483647"), Chars("2147483648"),
     Chars("2147483649"), Chars("4294967295"), Chars("4294967296"),
     Chars("9223372036854775807"), Chars("9223372036854775808"),
     Chars("9223372036854775809"), Chars("18446744073709551615"),
     Chars("18446744073709551616")}
IntTexts ==
    {sign \o m : sign \in {<<>>, <<"-">>, <<"+">>}, m \in Magnitudes}
        \cup {Chars("5.3"), Chars("x"), Chars("12x"), Chars("-"), Chars("1 2"), <<>>}
IntDocs == {Layout(<<Chars("N")>>, <<<<t>>>>) : t \in IntTexts}

\* Documents for TPrefix: the two columns in either order, and one of them.
PrefixDocs ==
    {Chars("Int Int8\n1   2   "), Chars("Int8 Int\n2    1  "), Chars("Int8\n2   "),
     Chars("Int\n1  ")}

\* Documents for TPtr: a cell of spaces only, and cells of the zero values.
PtrDocs ==
    {Layout(<<Chars("O")>>, <<<<t>>>>) :
        t \in {<<>>, Chars("0"), Chars("false"), Chars("null"), Chars("0001-01-01T00:00:00Z")}}
PtrKinds == {"int8", "uint", "float32", "string", "bool", "time", "list"}

\* Documents for TNum: floats in both of fmt's %g forms, and cells that are
\* no number, in one column or in both.
NumDocs ==
    {Layout(<<Chars("F"), Chars("I")>>, <<<<f, i>>>>) :
        f \in {Chars("1234567"), Chars("1.5"), Chars("0"), Chars("1e3"), Chars("x")},
        i \in {Chars("5"), Chars("y")}}

\* Slices of records to encode.
NumRecs ==
    {Rec(<<f, i>>) :
        f \in {FloatV(FALSE, <<>>, 0), FloatV(FALSE, Chars("15"), 1),
               FloatV(TRUE, Chars("25"), 1), FloatV(FALSE, Chars("1234567"), 7)},
        i \in {IntV(TRUE, Chars("128")), IntV(FALSE, Chars("5"))}}
TextRecs ==
    {Rec(<<StrV(x), BoolV(b)>>) :
        x \in {<<>>, Chars("ab"), Chars("@@@"), Chars(" a")}, b \in BOOLEAN}
TimeRecs ==
    {Rec(<<d, TimeV(2017, 12, 27, 0, 0, 0, 0)>>) :
        d \in {ZeroTime, TimeV(2017, 12, 27, 13, 48, 3, 0)}}
OptRecs ==
    {Rec(<<p, l, q>>) :
        p \in {Nil, Ptr(IntV(TRUE, Chars("2")))},
        l \in {ListV(TRUE, <<>>), ListV(FALSE, <<IntV(FALSE, Chars("1")), IntV(FALSE, Chars("23"))>>)},
        q \in {Nil, Ptr(ListV(FALSE, <<IntV(FALSE, Chars("4"))>>))}}

\* The slices of a shape over a set of struct values; a slice of pointers
\* may hold nil elements.
Slices(shape, recs) ==
    SeqsUpTo({Elem(shape, r) : r \in recs}
                \cup (IF shape = PtrSlicePtrStruct THEN {Nil} ELSE {}), MaxRecords)

\* What v points to before a decode: nothing, or one element.
Priors(shape, fields) == {<<>>, <<Elem(shape, ZeroRec(fields))>>}

\* The starting points: an argument v, what it points to, and the bytes.
Starts ==
    \* decoding documents
    {<<Arg(PtrSliceStruct, TNames, FALSE), pr, d>> :
        pr \in Priors(PtrSliceStruct, TNames), d \in NameDocs}
    \cup UNION {{<<Arg(sh, TRow, FALSE), pr, d>> : pr \in Priors(sh, TRow), d \in RowDocs} :
                    sh \in Shapes}
    \cup UNION {{<<Arg(PtrSliceStruct, f, FALSE), pr, d>> :
                    pr \in Priors(PtrSliceStruct, f), d \in BadDocs} : f \in {TBad, TBadLater}}
    \cup {<<Arg(PtrSliceStruct, TInt(k, p), FALSE), <<>>, d>> :
            k \in IntKinds \cup UintKinds, p \in BOOLEAN, d \in IntDocs}
    \cup {<<Arg(PtrSliceStruct, TNum, FALSE), <<>>, d>> : d \in NumDocs}
    \cup {<<Arg(PtrSliceStruct, TPrefix, FALSE), <<>>, d>> : d \in PrefixDocs}
    \cup {<<Arg(PtrSliceStruct, TPtr(k), FALSE), <<>>, d>> : k \in PtrKinds, d \in PtrDocs}
    \* encoding slices
    \cup UNION {{<<Arg(sh, TNum, FALSE), sl, <<>> >> : sl \in Slices(sh, NumRecs)} : sh \in Shapes}
    \cup {<<Arg(PtrSliceStruct, TText, FALSE), sl, <<>> >> : sl \in Slices(PtrSliceStruct, TextRecs)}
    \cup {<<Arg(PtrSliceStruct, TTime, FALSE), sl, <<>> >> : sl \in Slices(PtrSliceStruct, TimeRecs)}
    \cup {<<Arg(PtrSliceStruct, TOpt, FALSE), sl, <<>> >> : sl \in Slices(PtrSliceStruct, OptRecs)}
    \* a nil *[]T
    \cup {<<Arg(PtrSliceStruct, TRow, TRUE), <<>>, d>> : d \in {<<>>, Chars("Int8 S\n5    x")}}
    \* arguments of a wrong type, with and without something they point to
    \cup {<<Arg(t, <<>>, FALSE), sl, d>> :
            t \in InvalidTypes,
            sl \in {<<>>, <<IntV(FALSE, Chars("7"))>>},
            d \in {<<>>, Chars("Int8 S\n5    x")}}

Init ==
    /\ \E st \in Starts : argV = st[1] /\ slice = st[2] /\ data = st[3]
    /\ err = NoErr
    /\ ops = <<>>
    /\ nRead = 0
    /\ nWritten = 0
    /\ prevSlice = slice
    /\ prevData = data
    /\ writer = NewWriter(0)

Crashed == err.kind = "runtime panic"

\* Unmarshal(data, v)
Unmarshal ==
    /\ Len(ops) < MaxCalls
    /\ ~Crashed
    /\ \E capSlack \in 0..MaxCapSlack :
        LET return(r) ==
                /\ err' = r.err
                /\ slice' = r.slice
                /\ nRead' = r.nRead
                /\ ops' = Append(ops, [op |-> "Unmarshal", err |-> r.err])
        IN  return(UnmarshalReader(data, argV, slice, capSlack))
    /\ nWritten' = 0
    /\ prevSlice' = slice
    /\ prevData' = data
    /\ UNCHANGED <<argV, data, writer>>

\* data, err = Marshal(v)
Marshal ==
    /\ Len(ops) < MaxCalls
    /\ ~Crashed
    /\ LET return(r) ==
               /\ err' = r.err
               /\ data' = Concat(r.writes)
               /\ nWritten' = Len(r.writes)
               /\ ops' = Append(ops, [op |-> "Marshal", err |-> r.err])
       IN  return(MarshalWriter(argV, slice))
    /\ nRead' = 0
    /\ prevSlice' = slice
    /\ prevData' = data
    /\ UNCHANGED <<argV, slice, writer>>

Next == Unmarshal \/ Marshal

Spec == Init /\ [][Next]_vars

-----------------------------------------------------------------------------
(* MarshalWriter called with a writer that may fail.                        *)

MaxFailAt == 8      \* the latest Write call at which a writer starts to fail

\* Records of TNum and of TOpt for the calls with such a writer.
WriterNumRecs ==
    {Rec(<<FloatV(FALSE, Chars("15"), 1), IntV(FALSE, Chars("5"))>>),
     Rec(<<FloatV(FALSE, <<>>, 0), IntV(TRUE, Chars("128"))>>)}
WriterOptRecs ==
    {Rec(<<Nil, ListV(TRUE, <<>>), Nil>>),
     Rec(<<Ptr(IntV(TRUE, Chars("2"))), ListV(FALSE, <<IntV(FALSE, Chars("1"))>>), Nil>>)}

\* The starting points: an argument v and what it points to.
WriterStarts ==
    UNION {{<<Arg(sh, TNum, FALSE), sl>> : sl \in Slices(sh, WriterNumRecs)} : sh \in Shapes}
    \cup {<<Arg(PtrSliceStruct, TOpt, FALSE), sl>> : sl \in Slices(PtrSliceStruct, WriterOptRecs)}
    \cup {<<Arg(PtrSliceStruct, TNum, TRUE), <<>> >>}
    \cup {<<Arg(t, <<>>, FALSE), <<>> >> : t \in InvalidTypes}

InitWriter ==
    /\ \E st \in WriterStarts : argV = st[1] /\ slice = st[2]
    /\ data = <<>>
    /\ err = NoErr
    /\ ops = <<>>
    /\ nRead = 0
    /\ nWritten = 0
    /\ prevSlice = slice
    /\ prevData = data
    /\ writer = NewWriter(0)

\* err = MarshalWriter(writer, v), the writer a new one that fails at its
\* failAt-th Write call; data is what the writer took.
MarshalToWriter ==
    /\ Len(ops) < MaxCalls
    /\ \E failAt \in 0..MaxFailAt :
        LET return(r) ==
                /\ err' = r.err
                /\ writer' = r.w
                /\ data' = Written(r.w)
                /\ nWritten' = Len(r.w.calls)
                /\ ops' = Append(ops, [op |-> "MarshalWriter", err |-> r.err])
        IN  return(MarshalWriterTo(NewWriter(failAt), argV, slice))
    /\ nRead' = 0
    /\ prevSlice' = slice
    /\ prevData' = data
    /\ UNCHANGED <<argV, slice>>

NextWriter == MarshalToWriter

SpecWriter == InitWriter /\ [][NextWriter]_vars

-----------------------------------------------------------------------------
(* Properties of the calls.  After a call, err is what it returned, data    *)
(* is an Unmarshal's input or a Marshal's output, slice an Unmarshal's      *)
(* target or a Marshal's input, and prevSlice and prevData are what slice   *)
(* and data were when the call started.                                     *)

LastCall(op) == ops # <<>> /\ ops[Len(ops)].op = op
Succeeded == err.kind = "none"
\* v is a non-nil pointer to a slice of structs or of pointers to structs.
ValidTarget == argV.type \in Shapes /\ ~argV.nilptr

\* The data lines of a document whose length in runes differs from the
\* header's, and the first of them.
Mismatching(d) ==
    {n \in 2..Len(ScanLines(d)) : Len(ScanLines(d)[n]) # Len(ScanLines(d)[1])}
FirstMismatching(d) == CHOOSE n \in Mismatching(d) : \A m \in Mismatching(d) : n <= m

InvalidTarget(t) ==
    \/ t = <<>>
    \/ t[1] # "Ptr"
    \/ t[2] # "Slice"
    \/ ~(t[3] = "Struct" \/ (t[3] = "Ptr" /\ t[4] = "Struct"))

C3_TargetReset ==
    (LastCall("Unmarshal") /\ Succeeded)
        => /\ Len(slice) = (IF ScanLines(data) = <<>> THEN 0 ELSE Len(ScanLines(data)) - 1)
           /\ \E capSlack \in 0..MaxCapSlack :
                slice = UnmarshalReader(data, argV, <<>>, capSlack).slice

\* A successful decode of two data lines into a target that held an element.
C3_Witness ==
    /\ LastCall("Unmarshal") /\ Succeeded
    /\ prevSlice # <<>>
    /\ Len(slice) = 2
    /\ slice[1] # prevSlice[1] /\ slice[2] # prevSlice[1]

\* An input without lines decoded into a target that held an element.
C3_EmptyInputReached ==
    LastCall("Unmarshal") /\ Succeeded /\ prevSlice # <<>> /\ data = <<>> /\ slice = <<>>

\* The name of a field's column: the column tag if the field has one,
\* otherwise the json tag if it has one, otherwise the field's name.
ResolvedName(fd) ==
    CASE fd.column.ok -> fd.column.v
      [] ~fd.column.ok /\ fd.json.ok -> fd.json.v
      [] OTHER -> fd.name

\* The document with the header names h and one row, the cell of column k
\* being the k-th letter.
CellOf(k) == <<Chars("abcdefgh")[k]>>
NameDoc(h) == Layout(h, <<[k \in 1..Len(h) |-> CellOf(k)]>>)

\* What a string field with the resolved name n takes from the row of NameDoc(h).
CellNamed(h, n) ==
    IF \E k \in 1..Len(h) : h[k] = n
    THEN CellOf(CHOOSE k \in 1..Len(h) : h[k] = n)
    ELSE <<>>

\* A text with every run of spaces made one space and those at its end dropped.
RECURSIVE Squeeze(_)
Squeeze(s) ==
    IF s = <<>> THEN <<>>
    ELSE IF Head(s) = SP /\ (Len(s) = 1 \/ s[2] = SP) THEN Squeeze(Tail(s))
    ELSE <<Head(s)>> \o Squeeze(Tail(s))

RECURSIVE JoinNames(_)
JoinNames(names) ==
    IF names = <<>> THEN <<>>
    ELSE IF Len(names) = 1 THEN names[1]
    ELSE names[1] \o <<SP>> \o JoinNames(Tail(names))

\* The header a Marshal of records with these fields writes, but for padding.
ResolvedHeader(fields) == JoinNames([i \in 1..Len(fields) |-> ResolvedName(fields[i])])

\* What C4 says of the decode of NameDoc(h): each field took the cell of the
\* column of h that has exactly the field's resolved name and of no other, a
\* field whose column h lacks staying zero.
DecodedByResolvedName(h) ==
    /\ Succeeded
    /\ Len(slice) = 1
    /\ \A i \in 1..Len(TNames) :
            slice[1].f[i] = StrV(CellNamed(h, ResolvedName(TNames[i])))

\* C4 as stated: a field's column is the one named by its column tag, else by
\* its json tag, else by its own name. Decoding a document takes each field's
\* value from the column of the header with exactly that name and from no
\* other, and the header Marshal writes holds these names, in the order of
\* the fields.
C4_NameResolution ==
    /\ \A h \in NameHeaders :
            (LastCall("Unmarshal") /\ argV.fields = TNames /\ data = NameDoc(h))
                => DecodedByResolvedName(h)
    /\ (LastCall("Marshal") /\ Succeeded)
            => Squeeze(ScanLines(data)[1]) = ResolvedHeader(argV.fields)

\* No name of the header holds another text of the pool inside it.
NoNameInsideAnother(h) == \A k \in 1..Len(h) : h[k] # Chars("Telephone")

\* The part of C4 that the code keeps: the same, for the headers in which no
\* column's name holds a resolved name inside it.
C4_Precedence ==
    /\ \A h \in NameHeaders :
            (/\ LastCall("Unmarshal") /\ argV.fields = TNames /\ data = NameDoc(h)
             /\ NoNameInsideAnother(h))
                => DecodedByResolvedName(h)
    /\ (LastCall("Marshal") /\ Succeeded)
            => Squeeze(ScanLines(data)[1]) = ResolvedHeader(argV.fields)

\* The header holds a column Zip and a column Credit Limit, and the field
\* Zip, whose column tag is Credit Limit, took the cell of the latter.
C4_PrecedenceReached ==
    /\ LastCall("Unmarshal") /\ Succeeded
    /\ argV.fields = TNames
    /\ data = NameDoc(<<Chars("Zip"), Chars("Credit Limit")>>)
    /\ slice[1].f[1] = StrV(CellOf(2))

\* An integer literal: an optional sign and at least one digit.
Unsigned(s) == IF s # <<>> /\ Head(s) \in {"+", "-"} THEN Tail(s) ELSE s
IsIntLiteral(s) == Unsigned(s) # <<>> /\ AllDigits(Unsigned(s))
\* The value of an integer literal: its magnitude, and whether it is below 0.
LiteralMag(s) == StripZeros(Unsigned(s))
LiteralNeg(s) == Head(s) = "-" /\ LiteralMag(s) # <<"0">>

\* The value fits a field of this integer kind.
Representable(kind, neg, mag) ==
    IF kind \in UintKinds THEN ~neg /\ MagLE(mag, MaxUnsigned(BitSize(kind)))
    ELSE IF neg THEN MagLE(mag, MinSignedMag(BitSize(kind)))
    ELSE MagLE(mag, MaxSigned(BitSize(kind)))

\* C5 as stated: decoding a line whose one cell goes to a field of an integer
\* kind stores the value of the cell if the cell is an integer literal whose
\* value the kind can hold, fails with OverflowError if it is an integer
\* literal whose value the kind cannot hold, and fails with CastError only if
\* the cell is no integer literal.
C5_StrictOverflow ==
    (/\ LastCall("Unmarshal") /\ ValidTarget
     /\ Len(argV.fields) = 1
     /\ argV.fields = TInt(argV.fields[1].kind, argV.fields[1].ptr)
     /\ Len(ScanLines(data)) = 2)
        => LET fd == argV.fields[1]
               cell == TrimSpace(ScanLines(data)[2])
           IN  IF ~IsIntLiteral(cell) THEN err = LineError(2, CastError(cell, fd))
               ELSE IF ~Representable(fd.kind, LiteralNeg(cell), LiteralMag(cell))
               THEN err = LineError(2, OverflowError(fd))
               ELSE /\ Succeeded
                    /\ slice = <<Elem(argV.type,
                                     Rec(<<Box(fd.ptr, IntV(LiteralNeg(cell), LiteralMag(cell)))>>))>>

\* The type has fields of scalar kinds and times only: no pointer, no list;
\* the names of their columns are texts a header can be searched for.
ScalarOnly(fields) ==
    \A i \in 1..Len(fields) :
        /\ ~fields[i].ptr /\ fields[i].kind # "list"
        /\ \A k \in 1..Len(ResolvedName(fields[i])) : ResolvedName(fields[i])[k] # ")"

\* No string of the records begins or ends with white space, which a cell
\* padded with spaces cannot keep.
TrimmedStrings(sl) ==
    \A i \in 1..Len(sl) :
        LET item == IF sl[i].t = "ptr" THEN sl[i].elem ELSE sl[i]
        IN  \A k \in 1..Len(item.f) :
                item.f[k].t = "string" => TrimSpace(item.f[k].s) = item.f[k].s

\* C6 as stated: records of a type of scalar and time fields only, encoded by
\* Marshal and decoded again by Unmarshal with the same type, come back: the
\* Unmarshal succeeds and the target equals the records that were encoded.
\* (It is stated for the records that favour it: those whose strings have no
\* white space at either end.)
C6_EncodeDecode ==
    (/\ Len(ops) = 2
     /\ ops[1] = [op |-> "Marshal", err |-> NoErr]
     /\ ops[2].op = "Unmarshal"
     /\ ScalarOnly(argV.fields)
     /\ TrimmedStrings(prevSlice))
        => Succeeded /\ slice = prevSlice

\* The header of the document holds the columns of the fields, all of them and
\* no other, and no row differs from it in length.
ValidDocument(d, fields) ==
    /\ ScanLines(d) # <<>>
    /\ Squeeze(ScanLines(d)[1]) = ResolvedHeader(fields)
    /\ Mismatching(d) = {}

\* C7 as stated: a valid document, decoded by Unmarshal and encoded again by
\* Marshal with the same type, gives a document with the same column names
\* whose rows carry the same values: decoding it yields the same records.
C7_DecodeEncode ==
    (/\ Len(ops) = 2
     /\ ops[1] = [op |-> "Unmarshal", err |-> NoErr]
     /\ ops[2] = [op |-> "Marshal", err |-> NoErr]
     /\ ValidDocument(prevData, argV.fields))
        => /\ Squeeze(ScanLines(data)[1]) = Squeeze(ScanLines(prevData)[1])
           /\ \A capSlack \in 0..MaxCapSlack :
                UnmarshalReader(data, argV, <<>>, capSlack) =
                    [err |-> NoErr, slice |-> slice, nRead |-> Len(slice) + 1]

\* C8 as stated: every line of the output of a successful Marshal has the
\* length, in runes, of the header line.
C8_FixedWidth ==
    (LastCall("Marshal") /\ Succeeded) => Mismatching(data) = {}

\* The line feeds of a text.
LineFeeds(d) == {i \in 1..Len(d) : d[i] = NL}

\* C9 as stated: the output of a successful Marshal is the header line and one
\* line per record, with one line feed between two lines and none at the end.
C9_LineStructure ==
    (LastCall("Marshal") /\ Succeeded)
        => /\ Cardinality(LineFeeds(data)) = Len(slice)
           /\ data # <<>> /\ data[Len(data)] # NL

\* C10 as stated: an Unmarshal that was given a valid target and returns an
\* error leaves no record in the target.
C10_NoPartialResults ==
    (/\ LastCall("Unmarshal") /\ ValidTarget
     /\ err.kind \in {"LineLengthError", "PatternError", "LineError"})
        => slice = <<>>

\* The lines of the input of the last Unmarshal, its header, and the columns
\* the header resolves to for the type of the target.
Lines == ScanLines(data)
Header == Lines[1]
Columns == parseHeaders(Header, getColumns(argV.fields))

\* An Unmarshal with a valid target was given a header that resolved, and
\* every column of it lies within the length of the header, in runes.
HeaderResolved ==
    /\ LastCall("Unmarshal") /\ ValidTarget
    /\ Lines # <<>>
    /\ Columns.err = NoErr
    /\ \A c \in 1..Len(Columns.columns) : Columns.columns[c].end <= RuneLen(Header)

\* Field k of the type has a column among cols, and the column.
HasColumnIn(cols, k) == \E c \in 1..Len(cols) : cols[c].name = getRefName(argV.fields[k])
ColumnIn(cols, k) == cols[CHOOSE c \in 1..Len(cols) : cols[c].name = getRefName(argV.fields[k])]

\* The cell of a line that lies under the column of field k, and the error of
\* converting it.
CellIn(line, cols, k) == Slice(line, ColumnIn(cols, k).start, ColumnIn(cols, k).end)
ConversionErrorIn(line, cols, k) ==
    setFieldValue(ZeroValue(argV.fields[k]), argV.fields[k], CellIn(line, cols, k)).err

\* The fields whose cell of the line cannot be converted, and the data lines
\* of the header's length that have such a field.
FailingFieldsIn(line, cols) ==
    {k \in 1..Len(argV.fields) : HasColumnIn(cols, k) /\ ConversionErrorIn(line, cols, k) # NoErr}
FailingLinesIn(lines, cols) ==
    {n \in 2..Len(lines) : Len(lines[n]) = Len(lines[1]) /\ FailingFieldsIn(lines[n], cols) # {}}

\* The data lines whose length differs from the header's.
MismatchingIn(lines) == {n \in 2..Len(lines) : Len(lines[n]) # Len(lines[1])}

\* The same for the input of the last Unmarshal: field k has a column, the
\* cell of line n under it, the error of converting it, the failing fields of
\* line n, and the lines that have one.
HasColumn(k) == HasColumnIn(Columns.columns, k)
CellUnder(n, k) == CellIn(Lines[n], Columns.columns, k)
ConversionError(n, k) == ConversionErrorIn(Lines[n], Columns.columns, k)
FailingFields(n) == FailingFieldsIn(Lines[n], Columns.columns)
FailingLines == FailingLinesIn(Lines, Columns.columns)

Least(S) == CHOOSE n \in S : \A m \in S : n <= m

\* The first data line that is of a wrong length or has a failing field.
FirstBadLine == Least(FailingLines \cup Mismatching(data))

\* What C11 says of a decode of lines under the columns cols, failing being
\* the lines with a failing field and first the first line that is bad.
FirstFieldErrorOf(lines, cols, failing, first) ==
    /\ (failing # {} /\ first \in failing)
            => /\ err = LineError(first,
                                  ConversionErrorIn(lines[first], cols,
                                                    Least(FailingFieldsIn(lines[first], cols))))
               /\ nRead = first
               /\ Len(slice) = first - 2
    /\ err.kind = "LineError" => failing # {} /\ err.line = first

\* C11: when N is the first data line that cannot be decoded and it has a cell
\* that cannot be converted, Unmarshal returns 'error in line N' wrapping the
\* error of the first field, in declaration order, whose cell of line N cannot
\* be converted; it has read N lines and no more, and the target holds the
\* records of the lines before N. No other call returns 'error in line'.
C11_FirstFieldError ==
    HeaderResolved
        => LET first(failing, mismatching) == Least(failing \cup mismatching)
               of(lines, cols, failing) ==
                    FirstFieldErrorOf(lines, cols, failing,
                                      first(failing, MismatchingIn(lines)))
               under(lines, cols) == of(lines, cols, FailingLinesIn(lines, cols))
           IN  under(Lines, Columns.columns)

\* Two cells of the first bad line fail, with different errors, lines follow
\* it, and the error returned is that of the first of the two fields.
C11_Witness ==
    /\ HeaderResolved
    /\ FailingLines # {} /\ FirstBadLine \in FailingLines
    /\ Cardinality(FailingFields(FirstBadLine)) = 2
    /\ err = LineError(FirstBadLine, ConversionError(FirstBadLine, 1))
    /\ ConversionError(FirstBadLine, 2) # ConversionError(FirstBadLine, 1)
    /\ Len(Lines) > FirstBadLine

\* Line 2 was decoded and a cell of line 3 failed.
C11_LaterLineReached ==
    /\ HeaderResolved
    /\ FailingLines # {} /\ FirstBadLine = 3
    /\ err.kind = "LineError" /\ err.line = 3
    /\ Len(slice) = 1

\* The record decoded from line n.
RecordOf(n) == IF slice[n - 1].t = "ptr" THEN slice[n - 1].elem ELSE slice[n - 1]

\* Field k is a pointer, and the cell of line n under its column is blank.
BlankOptional(n, k) ==
    argV.fields[k].ptr /\ HasColumn(k) /\ TrimSpace(CellUnder(n, k)) = <<>>

\* C12 as stated: a blank cell under the column of a pointer field is no
\* error and leaves the field nil. A decode whose lines have the header's
\* length and whose other cells all convert succeeds, and every pointer field
\* with a blank cell is nil in the record of its line.
C12_BlankOptional ==
    (/\ HeaderResolved
     /\ Mismatching(data) = {}
     /\ \A n \in 2..Len(Lines) : \A k \in FailingFields(n) : BlankOptional(n, k))
        => /\ Succeeded
           /\ \A n \in 2..Len(Lines) : \A k \in 1..Len(argV.fields) :
                BlankOptional(n, k) => RecordOf(n).f[k] = Nil

\* The text occurs in the line.
OccursIn(name, line) ==
    \E i \in 0..(Len(line) - Len(name)) : Slice(line, i, i + Len(name)) = name

\* The fields whose resolved name does not occur in the header.
MissingFields == {k \in 1..Len(argV.fields) : ~OccursIn(ResolvedName(argV.fields[k]), Header)}

\* The records of the target, the pointers to records followed.
Records == [i \in 1..Len(slice) |-> IF slice[i].t = "ptr" THEN slice[i].elem ELSE slice[i]]

\* C13: after an Unmarshal whose header line was resolved, a field whose
\* resolved name does not occur in the header has no column, has its zero
\* value in every record of the target, and is not the field of the error
\* the call returned, if it returned one.
C13_MissingColumn ==
    (LastCall("Unmarshal") /\ ValidTarget /\ Lines # <<>> /\ Columns.err = NoErr)
        => \A k \in MissingFields :
            /\ ~HasColumn(k)
            /\ \A i \in 1..Len(Records) : Records[i].f[k] = ZeroValue(argV.fields[k])
            /\ err.kind = "LineError" => err.cause.field # argV.fields[k].name

\* Two lines were decoded whose text under a column of another name is no
\* number at first and a number then; the field Int8 has no column and is 0
\* in both records, and the field S took its cells.
C13_Witness ==
    /\ LastCall("Unmarshal") /\ Succeeded
    /\ argV.fields = TRow
    /\ Len(Records) = 2
    /\ Lines # <<>> /\ MissingFields = {1}
    /\ Records[1].f = <<IntV(FALSE, <<"0">>), StrV(<<"z">>)>>
    /\ Records[2].f = <<IntV(FALSE, <<"0">>), StrV(<<"y">>)>>

\* The name is no valid pattern: of the characters of the model's names, a
\* closing parenthesis is the one a pattern cannot hold unmatched.
InvalidPattern(name) == \E i \in 1..Len(name) : name[i] = ")"

\* The fields whose resolved name is no valid pattern.
InvalidNames == {k \in 1..Len(argV.fields) : InvalidPattern(ResolvedName(argV.fields[k]))}

\* C14: an Unmarshal of a non-empty input into a type that has a field whose
\* resolved name is no valid pattern returns the pattern error naming the
\* first such name; it has read the header line and no data line, and the
\* target holds no record.
C14_PatternError ==
    (LastCall("Unmarshal") /\ ValidTarget /\ data # <<>> /\ InvalidNames # {})
        => /\ err = PatternError(ResolvedName(argV.fields[Least(InvalidNames)]))
           /\ nRead = 1
           /\ slice = <<>>

\* The second and the third field have such a name, the input has data lines
\* and the target held a record: the error names the second field's column.
C14_Witness ==
    /\ LastCall("Unmarshal") /\ ValidTarget
    /\ InvalidNames = {2, 3}
    /\ Len(Lines) = 3
    /\ prevSlice # <<>>
    /\ err = PatternError(Chars(")Float32"))
    /\ nRead = 1 /\ slice = <<>>

\* A blank line: no character, or white space only.
Blank(line) == TrimSpace(line) = <<>>

\* The input has a data line at its end that is blank.
EndsWithBlankLine(d) == Len(ScanLines(d)) >= 2 /\ Blank(ScanLines(d)[Len(ScanLines(d))])

\* The input without its last line.
WithoutLastLine(d) == JoinLines(SubSeq(ScanLines(d), 1, Len(ScanLines(d)) - 1))

\* The decode of the input d into an empty target of the type of v succeeds.
Decodes(d) ==
    \A capSlack \in 0..MaxCapSlack : UnmarshalReader(d, argV, <<>>, capSlack).err = NoErr

\* The target holds what a decode of the input d yields.
HoldsRecordsOf(d) ==
    \E capSlack \in 0..MaxCapSlack : slice = UnmarshalReader(d, argV, <<>>, capSlack).slice

\* C15 as stated: an Unmarshal of an input that ends with a blank line, and
\* that decodes without this line, succeeds and yields the records that the
\* input without the blank line yields.
C15_TrailingBlankLine ==
    (/\ LastCall("Unmarshal") /\ ValidTarget
     /\ EndsWithBlankLine(data)
     /\ Decodes(WithoutLastLine(data)))
        => Succeeded /\ HoldsRecordsOf(WithoutLastLine(data))

\* The input has a line feed at its end, after a line that is not empty.
EndsWithLineFeed(d) == Len(d) >= 2 /\ d[Len(d)] = NL /\ d[Len(d) - 1] # NL

\* The part of C15 that the code keeps: a line feed that ends the last line
\* changes nothing; error and records are those of the input without it.
C15_FinalLineFeed ==
    (LastCall("Unmarshal") /\ ValidTarget /\ EndsWithLineFeed(data))
        => \E capSlack \in 0..MaxCapSlack :
            LET r == UnmarshalReader(SubSeq(data, 1, Len(data) - 1), argV, <<>>, capSlack)
            IN  err = r.err /\ slice = r.slice

\* Two data lines and a final line feed were decoded into two records.
C15_FinalLineFeedReached ==
    /\ LastCall("Unmarshal") /\ Succeeded
    /\ EndsWithLineFeed(data)
    /\ Len(Lines) = 3 /\ Len(slice) = 2

\* The errors of the documented taxonomy that a call with a valid target can
\* return: the line length error, the pattern error, and the cast, overflow
\* and decoding errors of a cell, wrapped with their line.
Documented(e) ==
    \/ e.kind \in {"LineLengthError", "PatternError"}
    \/ e.kind = "LineError" /\ e.cause.kind \in {"CastError", "OverflowError", "can't unmarshal"}

\* C16 as stated: a call of Unmarshal or Marshal with a valid target succeeds
\* or returns an error of the documented taxonomy; it neither ends in a
\* runtime panic nor returns a fault of the reflection library.
C16_ErrorBoundary ==
    (ops # <<>> /\ ValidTarget) => (Succeeded \/ Documented(err))

\* The same for Unmarshal alone, and for Marshal alone.
C16_DecodeBoundary ==
    (LastCall("Unmarshal") /\ ValidTarget) => (Succeeded \/ Documented(err))
C16_EncodeBoundary ==
    (LastCall("Marshal") /\ ValidTarget) => (Succeeded \/ Documented(err))

\* The text the emission pass formats for a field's value: nothing for a nil
\* pointer, for which it writes the padding only.
Rendered(value, fd) ==
    IF value.t = "nil" THEN <<>>
    ELSE RenderValue(IF value.t = "ptr" THEN value.elem ELSE value, fd)

\* The records of the sequence to encode that are no nil pointer.
NonNilRecords ==
    {IF slice[i].t = "ptr" THEN slice[i].elem ELSE slice[i] :
        i \in {j \in 1..Len(slice) : slice[j].t # "nil"}}

Greatest(S) == CHOOSE n \in S : \A m \in S : m <= n

\* The length of the name of field k's column and the lengths of what is
\* rendered for field k of the records, in runes.
LengthsIn(k) ==
    {RuneLen(ResolvedName(argV.fields[k]))}
        \cup {RuneLen(Rendered(r.f[k], argV.fields[k])) : r \in NonNilRecords}

\* The width Marshal computes for the column of field k before it emits.
ColumnWidthOf(k) ==
    WidthOf(makeColumnWidthIndex(slice, argV.fields), getRefName(argV.fields[k]))

\* C17 as stated: the width Marshal has computed for a column when it starts
\* to emit is the greatest of the length of the column's name and the lengths
\* of what it renders for that field of the records.
C17_ColumnWidth ==
    (LastCall("Marshal") /\ ValidTarget)
        => \A k \in 1..Len(argV.fields) : ColumnWidthOf(k) = Greatest(LengthsIn(k))

\* The consequence C17 draws: no name and no rendered cell is longer than
\* the width of its column.
C17_NothingLonger ==
    (LastCall("Marshal") /\ ValidTarget)
        => \A k \in 1..Len(argV.fields) : \A n \in LengthsIn(k) : n <= ColumnWidthOf(k)

\* The elements of the sequence that are nil pointers, and the sequence
\* without them.
NilElements == {i \in 1..Len(slice) : slice[i].t = "nil"}
IsRecord(e) == e.t # "nil"
WithoutNil == SelectSeq(slice, IsRecord)

\* C18 as stated: a Marshal of a slice of pointers that holds a nil element
\* succeeds; the widths of the columns are those of the slice without its nil
\* elements, and the line of each nil element is a row of blanks.
C18_NilRecord ==
    (LastCall("Marshal") /\ ValidTarget /\ NilElements # {})
        => /\ Succeeded
           /\ makeColumnWidthIndex(slice, argV.fields) = makeColumnWidthIndex(WithoutNil, argV.fields)
           /\ Len(Lines) = Len(slice) + 1
           /\ \A i \in NilElements : Blank(Lines[i + 1])

\* The part of C18 that the code keeps: a nil element adds nothing to the
\* widths of the columns.
C18_NilNotMeasured ==
    (LastCall("Marshal") /\ ValidTarget /\ NilElements # {})
        => makeColumnWidthIndex(slice, argV.fields) = makeColumnWidthIndex(WithoutNil, argV.fields)

\* A Marshal of a record followed by a nil pointer.
C18_NilNotMeasuredReached ==
    /\ LastCall("Marshal") /\ ValidTarget
    /\ Len(slice) = 2 /\ NilElements = {2}

\* Where the column of a name lies in the header, counted in runes: from the
\* first place the name occurs at to the end of the spaces that follow it.
LogicalStart(name) ==
    Least({i \in 0..(Len(Header) - Len(name)) : Slice(Header, i, i + Len(name)) = name})
LogicalEnd(name) ==
    Greatest({j \in (LogicalStart(name) + Len(name))..Len(Header) :
                \A p \in (LogicalStart(name) + Len(name) + 1)..j : Header[p] = SP})

\* The fields whose resolved name occurs in the header.
LocatedFields == (1..Len(argV.fields)) \ MissingFields

\* The characters of line n at the places of the column of field k, and what
\* the field takes from them.
LogicalCell(n, k) ==
    Slice(Lines[n], LogicalStart(ResolvedName(argV.fields[k])),
                    LogicalEnd(ResolvedName(argV.fields[k])))
LogicalValue(n, k) == setFieldValue(ZeroValue(argV.fields[k]), argV.fields[k], LogicalCell(n, k))

\* An Unmarshal with a valid target of a document whose header resolves,
\* whose lines have the header's length in runes, and whose cells at the
\* places of the columns all convert.
WellFormedInput ==
    /\ LastCall("Unmarshal") /\ ValidTarget
    /\ Lines # <<>>
    /\ Columns.err = NoErr
    /\ Mismatching(data) = {}
    /\ \A n \in 2..Len(Lines) : \A k \in LocatedFields : LogicalValue(n, k).err = NoErr

\* C19 as stated: the columns are counted in runes. The Unmarshal of such a
\* document succeeds, and each field of each record holds the value of the
\* characters of its line at the places of the field's column in the header.
C19_LogicalOffsets ==
    WellFormedInput
        => /\ Succeeded
           /\ \A n \in 2..Len(Lines) : \A k \in LocatedFields :
                RecordOf(n).f[k] = LogicalValue(n, k).v

\* The header holds a character of more than one byte.
MultiByte(line) == \E i \in 1..Len(line) : ByteLen(line[i]) > 1

\* The part of C19 that the code keeps: the same, for the headers of
\* one-byte characters only.
C19_OneByteOffsets ==
    (WellFormedInput /\ ~MultiByte(Header))
        => /\ Succeeded
           /\ \A n \in 2..Len(Lines) : \A k \in LocatedFields :
                RecordOf(n).f[k] = LogicalValue(n, k).v

\* Two lines under a header of one-byte characters were decoded, one of them
\* holding a character of two bytes in a cell.
C19_OneByteOffsetsReached ==
    /\ WellFormedInput /\ ~MultiByte(Header)
    /\ Len(Lines) = 3
    /\ MultiByte(Lines[2])
    /\ Succeeded

\* Two spans [start, end) share no place.
Disjoint(a, b) == a.end <= b.start \/ b.end <= a.start

\* C20 as stated: the columns that the header of an Unmarshal resolves to do
\* not overlap, whatever the header and the type: the spans of any two of
\* them are disjoint.
C20_NonOverlapping ==
    (LastCall("Unmarshal") /\ ValidTarget /\ Lines # <<>> /\ Columns.err = NoErr)
        => \A a, b \in 1..Len(Columns.columns) :
                a # b => Disjoint(Columns.columns[a], Columns.columns[b])

\* No resolved name of the type occurs in the header at a place where it is
\* not the whole name of a column: it begins the header or follows a space,
\* and it ends the header or is followed by a space.
WholeNames ==
    \A k \in LocatedFields :
        LET name == ResolvedName(argV.fields[k])
            i == LogicalStart(name)
        IN  /\ (i = 0 \/ Header[i] = SP)
            /\ (i + Len(name) = Len(Header) \/ Header[i + Len(name) + 1] = SP)

\* The part of C20 that the code keeps: the same, for the headers in which
\* each resolved name is first met as the whole name of a column, the
\* resolved names being distinct.
C20_WholeNamesDisjoint ==
    (/\ LastCall("Unmarshal") /\ ValidTarget /\ Lines # <<>> /\ Columns.err = NoErr
     /\ ~MultiByte(Header) /\ WholeNames)
        => \A a, b \in 1..Len(Columns.columns) :
                a # b => Disjoint(Columns.columns[a], Columns.columns[b])

\* The header 'Int Int8', in which Int is met first as a column of its own.
C20_WholeNamesReached ==
    /\ LastCall("Unmarshal") /\ Succeeded
    /\ argV.fields = TPrefix
    /\ Lines # <<>> /\ Header = Chars("Int Int8")
    /\ WholeNames
    /\ Len(Columns.columns) = 2

\* A Write call on the writer has failed.
WriteFailed == writer.failAt # 0 /\ Len(writer.calls) >= writer.failAt

\* C21: when a Write call of MarshalWriter's writer has failed, MarshalWriter
\* has returned the error of that call, and the failed call is the last
\* Write call the writer has received.
C21_WriteFailureTerminal ==
    (LastCall("MarshalWriter") /\ WriteFailed)
        => /\ err = ErrWrite
           /\ Len(writer.calls) = writer.failAt
           /\ nWritten = writer.failAt

\* The writer failed at the line feed between the first record's line and
\* the second's, its eighth call; the header and the first line were taken.
C21_Witness ==
    /\ LastCall("MarshalWriter") /\ WriteFailed
    /\ Len(slice) = 2
    /\ writer.failAt = 8 /\ writer.calls[8] = <<NL>>
    /\ err = ErrWrite
    /\ Len(ScanLines(data)) = 2

\* The writer failed at the first name of the header, at the space between
\* two names, at a cell, at the space between two cells, and at one of the
\* spaces written for a nil pointer, after another call had been taken.
C21_HeaderNameReached ==
    LastCall("MarshalWriter") /\ WriteFailed /\ writer.failAt = 1 /\ err = ErrWrite /\ data = <<>>
C21_HeaderSpaceReached ==
    /\ LastCall("MarshalWriter") /\ WriteFailed /\ writer.failAt = 2
    /\ writer.calls[2] = <<SP>> /\ err = ErrWrite
C21_CellReached ==
    /\ LastCall("MarshalWriter") /\ WriteFailed /\ writer.failAt = 5
    /\ argV.fields = TNum /\ err = ErrWrite
C21_CellSpaceReached ==
    /\ LastCall("MarshalWriter") /\ WriteFailed /\ writer.failAt = 6
    /\ argV.fields = TNum /\ writer.calls[6] = <<SP>> /\ err = ErrWrite
C21_NilSpaceReached ==
    /\ LastCall("MarshalWriter") /\ WriteFailed /\ writer.failAt = 7
    /\ argV.fields = TOpt /\ slice # <<>> /\ slice[1].f[1] = Nil
    /\ writer.calls[7] = <<SP>> /\ err = ErrWrite

\* With a writer that does not fail, MarshalWriter returns and writes what
\* Marshal does with its buffer.
C21_AsMarshal ==
    (LastCall("MarshalWriter") /\ ~WriteFailed)
        => /\ err = MarshalWriter(argV, slice).err
           /\ writer.calls = MarshalWriter(argV, slice).writes

\* The record that the cells of a line under the columns cols make, the
\* array of the line's runes having capSlack elements beyond its length:
\* each field with a column holds the value of its cell, every other field
\* zero.
RecordFrom(line, cols, capSlack) ==
    Rec([k \in 1..Len(argV.fields) |->
            IF HasColumnIn(cols, k)
            THEN setFieldValue(ZeroValue(argV.fields[k]), argV.fields[k],
                               SliceRunes(line, ColumnIn(cols, k).start,
                                          ColumnIn(cols, k).end, capSlack).s).v
            ELSE ZeroValue(argV.fields[k])])

\* What C22 says of a successful decode of lines under the columns cols.
InInputOrder(lines, cols) ==
    /\ Len(slice) = Len(lines) - 1
    /\ nRead = Len(lines)
    /\ \E capSlack \in 0..MaxCapSlack :
          \A i \in 1..Len(slice) : Records[i] = RecordFrom(lines[i + 1], cols, capSlack)

C22_HeaderOnlyReached ==
    /\ HeaderResolved /\ Succeeded
    /\ Len(Lines) = 1 /\ Header # <<>>
    /\ slice = <<>> /\ nRead = 1

\* The input that holds the header line and one data line only.
Alone(header, line) == header \o <<NL>> \o line \o <<NL>>

\* Record i of the target is the only record of a successful call that is
\* given the header and line i + 1 alone.
DecodedAlone(lines, i) ==
    \E capSlack \in 0..MaxCapSlack :
        LET r == UnmarshalReader(Alone(lines[1], lines[i + 1]), argV, <<>>, capSlack)
        IN  r.err = NoErr /\ r.slice = <<slice[i]>>

\* C23: after an Unmarshal, failed or not, every record of the target is the
\* record that the header and the record's own line give when no other line
\* is decoded before it.
C23_NoRetention ==
    (LastCall("Unmarshal") /\ ValidTarget)
        => LET own(lines) ==
                   /\ Len(slice) < Len(lines) \/ slice = <<>>
                   /\ \A i \in 1..Len(slice) : DecodedAlone(lines, i)
           IN  own(Lines)

\* Two records were decoded from two lines that differ under every column,
\* and no field of the second record holds the value the first record has.
C23_Witness ==
    /\ HeaderResolved /\ Succeeded
    /\ Len(slice) = 2
    /\ Len(Columns.columns) = Len(argV.fields) /\ Len(argV.fields) >= 2
    /\ \A k \in 1..Len(argV.fields) :
          /\ CellIn(Lines[2], Columns.columns, k) # CellIn(Lines[3], Columns.columns, k)
          /\ Records[1].f[k] # Records[2].f[k]
    /\ DecodedAlone(Lines, 2)

\* A call failed at its third line and left the record of its second line.
C23_FailedLaterReached ==
    /\ HeaderResolved /\ ~Succeeded
    /\ Len(Lines) = 3 /\ Len(slice) = 1
    /\ DecodedAlone(Lines, 1)

====
